---- MODULE Spec2Model ----
(***************************************************************************)
(* Model of the text-analysis core of Agentic-ResumeMatcher:               *)
(*   - ResumeParserTool (src/src/tools/parser.py): section segmenter,      *)
(*     bullet extraction and contact extraction;                           *)
(*   - ResumeTailorAgent (src/src/agents/resume_tailor.py): keyword match  *)
(*     score, matched keywords, tailor_resume;                             *)
(*   - KeywordExtractorAgent.analyze_job_description                       *)
(*     (src/src/agents/keyword_extractor.py);                              *)
(*   - FileReaderTool (src/src/tools/file_reader.py);                      *)
(*   - create_resume_tailor_system (src/src/main.py);                      *)
(*   - the /analyze endpoint (src/examples/api_example.py).                *)
(* Python str values are TLA+ strings; a character is a string of          *)
(* length 1, obtained with SubSeq(s, i, i).  The modelled alphabet is      *)
(* ASCII (the non-ASCII bullet symbols of parser.py:217 are not            *)
(* expressible in a TLA+ string and are left out of the bullet class).     *)
(***************************************************************************)
EXTENDS Integers, Sequences, FiniteSets, TLC

VARIABLES
    pc,                    \* position of the running operation
    resume_text,           \* input text of parse_resume / calculate_match_score
    lines,                 \* parser.py:80   lines = text.split("\n")
    idx,                   \* index of the next line the for loop of parser.py:85 visits
    sections,              \* parser.py:81   sections
    current_section_name,  \* parser.py:82
    current_content,       \* parser.py:83
    contact_info,          \* parser.py:56   result of _extract_contact_info
    job_analysis,          \* the JobAnalysis handed to calculate_match_score
    match_score,           \* result of calculate_match_score, in tenths of a percent
    matched_keywords,      \* api_example.py:146  result of identify_matched_keywords
    missing_keywords,      \* api_example.py:148
    operation,             \* the agent operation under way
    job_description,       \* argument of analyze_job_description
    model_client,          \* self.model_client of the agent
    generate_calls,        \* number of model_client.generate calls made so far
    mock_calls,            \* number of _mock_analysis / _mock_tailoring calls made so far
    response,              \* the text the generation step handed back
    llm_error,             \* the exception model_client.generate raised
    result,                \* the value the operation returned
    raised,                \* the exception the operation raised to its caller
    file_path,             \* argument of read_file / validate_file
    file_system,           \* what the file system holds under file_path
    is_valid,              \* result of validate_file
    validate_raised,       \* the exception validate_file raised
    model_provider,        \* arguments of create_resume_tailor_system
    model_id,
    use_mock,
    settings,              \* the Settings object get_settings() returns
    threads,               \* the concurrent invocations, each with its own locals
    parser,                \* the ResumeParserTool instance the invocations share
    filename,              \* arguments of sanitize_filename
    max_length,
    request,               \* the ResumeRequest of process_resume and what lies behind it
    steps_started,         \* the steps of process_resume entered so far, in order
    steps_done,            \* the steps of process_resume that returned, in order
    calls,                 \* generation calls made so far, by kind
    written,               \* the files process_resume has written
    environment,           \* what Settings() loads from the environment and .env
    heap,                  \* the Settings objects made so far; an object is its index
    _settings,             \* settings.py:94  the global, 0 standing for None
    created_by,            \* for each Settings object, the function that made it
    override_log,          \* for each Settings object, the overrides written into it
    last_call,             \* the latest call of the settings functions or the factory
    ncalls,                \* number of such calls so far
    endpoint,              \* the API endpoint serving the request
    upload,                \* the uploaded resume file
    temp_resume_path,      \* api_example.py:124, 201, 260
    temp_files,            \* the files that exist in the directory of temporary files
    http_status            \* status of the response, 0 while there is none

\* the locals of one parse_resume call
parserVars == <<lines, idx, sections, current_section_name, current_content, contact_info>>

\* the locals of analyze_resume_match
analysisVars == <<matched_keywords, missing_keywords>>

\* an agent, its argument and the calls it made
agentVars == <<operation, job_description, model_client, generate_calls, mock_calls,
               response, llm_error>>

\* how an operation ended
outcomeVars == <<result, raised>>

\* FileReaderTool: the path, the file behind it, the verdict of validate_file
fileVars == <<file_path, file_system, is_valid, validate_raised>>

\* create_resume_tailor_system: its arguments and the settings
factoryVars == <<model_provider, model_id, use_mock, settings>>

\* concurrent callers and the parser they share
threadVars == <<threads, parser>>

\* sanitize_filename: its arguments
sanitizeVars == <<filename, max_length>>

\* the state of the components outside agents, tools and factory
\* process_resume: the request and the progress of the run
pipelineVars == <<request, steps_started, steps_done, calls, written>>

\* the settings singleton and the calls made on it
singletonVars == <<environment, heap, _settings, created_by, override_log, last_call, ncalls>>

\* an API request with an uploaded resume
apiVars == <<endpoint, upload, temp_resume_path, temp_files, http_status>>

systemVars == <<sanitizeVars, pipelineVars, singletonVars, apiVars>>

vars == <<pc, resume_text, parserVars, job_analysis, match_score, analysisVars,
          agentVars, outcomeVars, fileVars, factoryVars, threadVars, systemVars>>

-----------------------------------------------------------------------------
(* Bounds of the model.                                                    *)

\* largest number of lines of a resume body built from CoreLines
MaxLines == 4

\* largest number of lines of a resume body built from BodyLines
MaxBodyLines == 2

\* largest number of lines of a contact block given to the parser
MaxContactLines == 2

\* largest length of each of hard_skills, soft_skills and keywords
MaxItems == 2

\* largest number of lines of a text built from NameLines
MaxNameLines == 6

\* largest number of lines of a text built from NameEdgeLines
MaxNameEdgeLines == 2

\* largest number of whitespace characters before and after an agent's input
MaxPad == 1

\* largest number of lines, pages or paragraphs of a file
MaxParts == 2

\* number of threads that call the core routines at the same time
MaxThreads == 2

\* largest number of lines of a text built from HeaderLines
MaxHeaderLines == 2

\* largest length of a resume text that grows
MaxResumeLength == 4

\* sanitize_filename: file names of up to MaxFilenameLength characters and
\* limits of up to MaxLimit characters
MaxFilenameLength == 5
MaxLimit == 6

\* the settings singleton: calls in a row
MaxSettingsCalls == 3

-----------------------------------------------------------------------------
(* Python str primitives.                                                  *)

UpperLetters == "ABCDEFGHIJKLMNOPQRSTUVWXYZ"
LowerLetters == "abcdefghijklmnopqrstuvwxyz"
DigitChars == "0123456789"

CharsOf(s) == {SubSeq(s, i, i) : i \in 1..Len(s)}

UpperSet == CharsOf(UpperLetters)
LowerSet == CharsOf(LowerLetters)
DigitSet == CharsOf(DigitChars)

\* str.isspace() / regex \s on the modelled alphabet
SpaceSet == {" ", "\t", "\n", "\r"}

\* Python's None: a value different from every str the program handles
None == "<None>"

\* truth value of a str-or-None in a Python condition
Truthy(v) == v # None /\ v # ""

\* the character of s at index i; "" outside the string
At(s, i) == IF i >= 1 /\ i <= Len(s) THEN SubSeq(s, i, i) ELSE ""

ToLowerMap ==
    [c \in UpperSet |->
        LET k == CHOOSE i \in 1..26 : At(UpperLetters, i) = c IN At(LowerLetters, k)]

ToUpperMap ==
    [c \in LowerSet |->
        LET k == CHOOSE i \in 1..26 : At(LowerLetters, i) = c IN At(UpperLetters, k)]

\* One letter beyond ASCII, the Greek sigma, whose lower-case form depends on
\* its place in the word.  A string of this module holds ASCII characters
\* only, so its three forms are written with characters no text of the
\* model uses otherwise: "$" stands for the capital sigma (U+03A3), "~" for
\* the small sigma (U+03C3) and "?" for the final small sigma (U+03C2).
CapitalSigma == "$"
SmallSigma == "~"
FinalSigma == "?"

\* str.isupper() / str.islower() of one character
IsUpperChar(c) == c \in UpperSet \/ c = CapitalSigma
IsLowerChar(c) == c \in LowerSet \/ c = SmallSigma \/ c = FinalSigma

\* the lower-case and upper-case form of a character taken alone
lower_char(c) ==
    IF c \in UpperSet THEN ToLowerMap[c] ELSE IF c = CapitalSigma THEN SmallSigma ELSE c
upper_char(c) ==
    IF c \in LowerSet THEN ToUpperMap[c]
    ELSE IF c = SmallSigma \/ c = FinalSigma THEN CapitalSigma ELSE c

IsCased(c) == IsUpperChar(c) \/ IsLowerChar(c)

\* characters that the final-sigma rule of str.lower() skips (the backquote
\* is one more)
CaseIgnorableSet == {"'", ".", ":", "^"}

\* the nearest character before / after index i that is not skipped is cased
CasedBefore(s, i) ==
    \E j \in 1..(i - 1) :
        /\ IsCased(At(s, j))
        /\ \A k \in (j + 1)..(i - 1) : At(s, k) \in CaseIgnorableSet
CasedAfter(s, i) ==
    \E j \in (i + 1)..Len(s) :
        /\ IsCased(At(s, j))
        /\ \A k \in (i + 1)..(j - 1) : At(s, k) \in CaseIgnorableSet

\* the lower-case form of the character at index i of s: a capital sigma
\* that ends a word becomes the final small sigma
LowerAt(s, i) ==
    IF At(s, i) = CapitalSigma
    THEN IF CasedBefore(s, i) /\ ~CasedAfter(s, i) THEN FinalSigma ELSE SmallSigma
    ELSE lower_char(At(s, i))
isdigit(c) == c \in DigitSet
isspace(c) == c \in SpaceSet
\* regex \w
IsWordChar(c) == IsCased(c) \/ isdigit(c) \/ c = "_"

\* the lower-case forms of the characters a..b of s, halving the range so
\* that long prompts are handled with a shallow recursion
RECURSIVE LowerRange(_, _, _)
LowerRange(s, a, b) ==
    IF a > b THEN ""
    ELSE IF a = b THEN LowerAt(s, a)
    ELSE LET mid == (a + b) \div 2
         IN LowerRange(s, a, mid) \o LowerRange(s, mid + 1, b)

\* str.lower()
lower(s) == LowerRange(s, 1, Len(s))

RECURSIVE upper(_)
upper(s) == IF s = "" THEN "" ELSE upper_char(At(s, 1)) \o upper(SubSeq(s, 2, Len(s)))

\* str.title(): a cased character is upper-cased unless it follows a cased one
RECURSIVE TitleFrom(_, _)
TitleFrom(s, i) ==
    IF i > Len(s) THEN ""
    ELSE (IF i > 1 /\ IsCased(At(s, i - 1))
          THEN LowerAt(s, i)
          ELSE upper_char(At(s, i))) \o TitleFrom(s, i + 1)

title(s) == TitleFrom(s, 1)

\* str.isupper(): at least one cased character and no lower-case one
isupper(s) ==
    /\ \E i \in 1..Len(s) : IsCased(At(s, i))
    /\ \A i \in 1..Len(s) : ~IsLowerChar(At(s, i))

\* str.istitle(): upper-case only after uncased, lower-case only after cased
istitle(s) ==
    /\ \E i \in 1..Len(s) : IsCased(At(s, i))
    /\ \A i \in 1..Len(s) :
          /\ IsUpperChar(At(s, i)) => ~(i > 1 /\ IsCased(At(s, i - 1)))
          /\ IsLowerChar(At(s, i)) => (i > 1 /\ IsCased(At(s, i - 1)))

\* str.lstrip() / str.rstrip() / str.strip() with the default whitespace set
lstrip(s) ==
    LET keep == {i \in 1..Len(s) : ~isspace(At(s, i))}
    IN IF keep = {} THEN ""
       ELSE SubSeq(s, CHOOSE i \in keep : \A j \in keep : i <= j, Len(s))

rstrip(s) ==
    LET keep == {i \in 1..Len(s) : ~isspace(At(s, i))}
    IN IF keep = {} THEN ""
       ELSE SubSeq(s, 1, CHOOSE i \in keep : \A j \in keep : i >= j)

strip(s) == lstrip(rstrip(s))

\* str.rstrip(":")
rstrip_colon(s) ==
    LET keep == {i \in 1..Len(s) : At(s, i) # ":"}
    IN IF keep = {} THEN ""
       ELSE SubSeq(s, 1, CHOOSE i \in keep : \A j \in keep : i >= j)

\* the Python operator  needle in hay  on str
Contains(needle, hay) ==
    \E i \in 0..(Len(hay) - Len(needle)) : SubSeq(hay, i + 1, i + Len(needle)) = needle

\* text.split("\n"): always at least one element
RECURSIVE SplitFrom(_, _, _)
SplitFrom(s, start, i) ==
    IF i > Len(s) THEN <<SubSeq(s, start, Len(s))>>
    ELSE IF At(s, i) = "\n"
         THEN <<SubSeq(s, start, i - 1)>> \o SplitFrom(s, i + 1, i + 1)
         ELSE SplitFrom(s, start, i + 1)

split_lines(s) == SplitFrom(s, 1, 1)

\* "\n".join(seq)
RECURSIVE join_lines(_)
join_lines(seq) ==
    IF seq = <<>> THEN ""
    ELSE IF Len(seq) = 1 THEN seq[1]
         ELSE seq[1] \o "\n" \o join_lines(Tail(seq))

\* len(s.split()): number of maximal runs of non-whitespace characters
WordCount(s) ==
    Cardinality({i \in 1..Len(s) :
        ~isspace(At(s, i)) /\ (i = 1 \/ isspace(At(s, i - 1)))})

-----------------------------------------------------------------------------
(* ResumeParserTool: section headers.                                      *)

\* parser.py:18-31.  A pattern is a sequence of alternatives, an alternative
\* a sequence of words that the regex separates by \s+; every pattern is
\* anchored at the start of the line only and compiled with re.IGNORECASE.
SECTION_PATTERNS ==
    << << <<"PROFESSIONAL", "SUMMARY">>, <<"SUMMARY">>, <<"PROFILE">>, <<"OBJECTIVE">> >>,
       << <<"WORK", "EXPERIENCE">>, <<"EXPERIENCE">>, <<"EMPLOYMENT", "HISTORY">>,
          <<"PROFESSIONAL", "EXPERIENCE">> >>,
       << <<"EDUCATION">>, <<"ACADEMIC", "BACKGROUND">>, <<"ACADEMIC", "QUALIFICATIONS">> >>,
       << <<"SKILLS">>, <<"TECHNICAL", "SKILLS">>, <<"CORE", "COMPETENCIES">>, <<"EXPERTISE">> >>,
       << <<"CERTIFICATIONS">>, <<"CERTIFICATES">>, <<"PROFESSIONAL", "CERTIFICATIONS">> >>,
       << <<"PROJECTS">>, <<"KEY", "PROJECTS">>, <<"NOTABLE", "PROJECTS">> >>,
       << <<"AWARDS">>, <<"HONORS">>, <<"ACHIEVEMENTS">>, <<"ACCOMPLISHMENTS">> >>,
       << <<"PUBLICATIONS">>, <<"RESEARCH">>, <<"PAPERS">> >>,
       << <<"VOLUNTEER">>, <<"VOLUNTEER", "EXPERIENCE">>, <<"COMMUNITY", "SERVICE">> >>,
       << <<"LANGUAGES">>, <<"LANGUAGE", "SKILLS">> >>,
       << <<"INTERESTS">>, <<"HOBBIES">> >>,
       << <<"REFERENCES">> >> >>

\* index of the first non-whitespace character of s at or after pos (Len(s)+1 if none)
SkipSpaces(s, pos) ==
    LET stop == {i \in pos..Len(s) : ~isspace(At(s, i))}
    IN IF stop = {} THEN Len(s) + 1 ELSE CHOOSE i \in stop : \A j \in stop : i <= j

\* the words of one alternative match line from index pos on, ignoring case,
\* consecutive words separated by one or more whitespace characters
RECURSIVE MatchWords(_, _, _)
MatchWords(line, pos, words) ==
    LET w == Head(words)
        next == pos + Len(w)
    IN /\ next - 1 <= Len(line)
       /\ upper(SubSeq(line, pos, next - 1)) = w
       /\ \/ Len(words) = 1
          \/ /\ Len(words) > 1
             /\ next <= Len(line)
             /\ isspace(At(line, next))
             /\ MatchWords(line, SkipSpaces(line, next), Tail(words))

\* pattern.match(line) for one compiled pattern
PatternMatches(pattern, line) ==
    \E a \in 1..Len(pattern) : MatchWords(line, 1, pattern[a])

\* the line matches one of the twelve compiled patterns (parser.py:131-132)
MatchesKnownPattern(line) ==
    \E p \in 1..Len(SECTION_PATTERNS) : PatternMatches(SECTION_PATTERNS[p], line)

\* _normalize_section_name without the conversion to upper case
_normalize_section_name_caseful(header0) ==
    LET header == rstrip_colon(strip(header0))
    IN IF Contains("SUMMARY", header) \/ Contains("PROFILE", header)
          \/ Contains("OBJECTIVE", header) THEN "Professional Summary"
       ELSE IF Contains("EXPERIENCE", header) \/ Contains("EMPLOYMENT", header)
            THEN "Work Experience"
       ELSE IF Contains("EDUCATION", header) \/ Contains("ACADEMIC", header)
            THEN "Education"
       ELSE IF Contains("SKILL", header) \/ Contains("COMPETENC", header)
               \/ Contains("EXPERTISE", header) THEN "Skills"
       ELSE title(header)

\* parser.py:146-184
_normalize_section_name(header0) ==
    LET header == upper(rstrip_colon(strip(header0)))
    IN IF Contains("SUMMARY", header) \/ Contains("PROFILE", header)
          \/ Contains("OBJECTIVE", header) THEN "Professional Summary"
       ELSE IF Contains("EXPERIENCE", header) \/ Contains("EMPLOYMENT", header)
            THEN "Work Experience"
       ELSE IF Contains("EDUCATION", header) \/ Contains("ACADEMIC", header)
            THEN "Education"
       ELSE IF Contains("SKILL", header) \/ Contains("COMPETENC", header)
               \/ Contains("EXPERTISE", header) THEN "Skills"
       ELSE IF Contains("CERTIFICATION", header) \/ Contains("CERTIFICATE", header)
            THEN "Certifications"
       ELSE IF Contains("PROJECT", header) THEN "Projects"
       ELSE IF Contains("AWARD", header) \/ Contains("HONOR", header)
               \/ Contains("ACHIEVEMENT", header) THEN "Awards & Achievements"
       ELSE IF Contains("PUBLICATION", header) \/ Contains("RESEARCH", header)
            THEN "Publications"
       ELSE IF Contains("VOLUNTEER", header) \/ Contains("COMMUNITY", header)
            THEN "Volunteer Experience"
       ELSE IF Contains("LANGUAGE", header) THEN "Languages"
       ELSE IF Contains("INTEREST", header) \/ Contains("HOBBIES", header)
            THEN "Interests"
       ELSE IF Contains("REFERENCE", header) THEN "References"
       ELSE title(header)

\* _is_section_header with the heuristic header put in title case
_is_section_header_titled(line) ==
    IF MatchesKnownPattern(line)
    THEN [is_header |-> TRUE, section_name |-> _normalize_section_name(line)]
    ELSE IF Len(line) < 50 /\ (isupper(line) \/ istitle(line))
         THEN [is_header |-> TRUE,
               section_name |-> title(strip(IF Contains(":", line)
                                            THEN rstrip_colon(line) ELSE line))]
         ELSE [is_header |-> FALSE, section_name |-> None]

\* parser.py:120-144: the pair (is_header, normalized_section_name)
_is_section_header(line) ==
    IF MatchesKnownPattern(line)
    THEN [is_header |-> TRUE, section_name |-> _normalize_section_name(line)]
    ELSE IF Len(line) < 50 /\ (isupper(line) \/ istitle(line))
         THEN [is_header |-> TRUE,
               section_name |-> strip(IF Contains(":", line) THEN rstrip_colon(line) ELSE line)]
         ELSE [is_header |-> FALSE, section_name |-> None]

-----------------------------------------------------------------------------
(* ResumeParserTool: bullet points and sections.                           *)

\* the marker character class of the first bullet pattern (parser.py:217),
\* restricted to the modelled alphabet
BulletSymbols == {"-"}

\* index of the last character of the list marker that starts at index pos of
\* line, for bullet pattern k of parser.py:216-220; 0 if there is none
MarkerEnd(k, line, pos) ==
    IF pos > Len(line) THEN 0
    ELSE IF k = 1 THEN (IF At(line, pos) \in BulletSymbols THEN pos ELSE 0)
    ELSE IF k = 2 THEN (IF At(line, pos) = "*" THEN pos ELSE 0)
    ELSE LET stop == {i \in pos..Len(line) : ~isdigit(At(line, i))}
             d == IF stop = {} THEN Len(line) + 1
                  ELSE CHOOSE i \in stop : \A j \in stop : i <= j
         IN IF d > pos /\ d <= Len(line) /\ At(line, d) = "." THEN d ELSE 0

\* match.group(1) of re.match(bullet_patterns[k], line), or None:
\*   ^\s*  marker  \s+  (.+)$   with greedy \s+ giving back one character
\* when the whitespace run reaches the end of the line
BulletGroup(k, line) ==
    LET m == MarkerEnd(k, line, SkipSpaces(line, 1))
        e == SkipSpaces(line, m + 1) - 1
    IN IF m = 0 \/ e = m THEN None
       ELSE IF e < Len(line) THEN SubSeq(line, e + 1, Len(line))
       ELSE IF e - m >= 2 THEN SubSeq(line, Len(line), Len(line))
       ELSE None

\* BulletsOfLine without the strip() of the captured group
BulletsOfLine_unstripped(line) ==
    IF BulletGroup(1, line) # None THEN <<BulletGroup(1, line)>>
    ELSE IF BulletGroup(2, line) # None THEN <<BulletGroup(2, line)>>
    ELSE IF BulletGroup(3, line) # None THEN <<BulletGroup(3, line)>>
    ELSE <<>>

\* one iteration of the loop of parser.py:225-230: the bullets line adds
BulletsOfLine(line) ==
    IF BulletGroup(1, line) # None THEN <<strip(BulletGroup(1, line))>>
    ELSE IF BulletGroup(2, line) # None THEN <<strip(BulletGroup(2, line))>>
    ELSE IF BulletGroup(3, line) # None THEN <<strip(BulletGroup(3, line))>>
    ELSE <<>>

RECURSIVE BulletsOfLines(_)
BulletsOfLines(ls) ==
    IF ls = <<>> THEN <<>> ELSE BulletsOfLine(Head(ls)) \o BulletsOfLines(Tail(ls))

\* parser.py:206-232
_extract_bullet_points(text) == BulletsOfLines(split_lines(text))

\* the ResumeSection record (src/models/resume_data.py is not part of the
\* sources at hand; the fields are those the parser passes)
ResumeSection(name, content, bullets) ==
    [section_name |-> name, content |-> content, bullet_points |-> bullets]

\* the record parse_resume returns (parser.py:61-65)
ParsedResume(raw_text, secs, contacts) ==
    [raw_text |-> raw_text, sections |-> secs, contact_info |-> contacts]

\* parser.py:186-204
_create_section(section_name, content_lines) ==
    LET content == join_lines(content_lines)
    IN ResumeSection(section_name, content, _extract_bullet_points(content))

\* SectionStep closing the previous section even when it gathered no line
SectionStep_keep_empty(st, line) ==
    LET stripped_line == strip(line)
        h == _is_section_header(stripped_line)
    IN IF h.is_header /\ Truthy(h.section_name)
       THEN [sections |->
                IF Truthy(st.current_section_name)
                THEN Append(st.sections,
                            _create_section(st.current_section_name, st.current_content))
                ELSE st.sections,
             current_section_name |-> h.section_name,
             current_content |-> <<>>]
       ELSE IF Truthy(st.current_section_name)
            THEN [st EXCEPT !.current_content =
                     IF stripped_line # "" THEN Append(@, line) ELSE @]
            ELSE st

\* SectionStep closing the previous section under the name of the new header
SectionStep_late_name(st, line) ==
    LET stripped_line == strip(line)
        h == _is_section_header(stripped_line)
    IN IF h.is_header /\ Truthy(h.section_name)
       THEN [sections |->
                IF Truthy(st.current_section_name) /\ st.current_content # <<>>
                THEN Append(st.sections,
                            _create_section(h.section_name, st.current_content))
                ELSE st.sections,
             current_section_name |-> h.section_name,
             current_content |-> <<>>]
       ELSE IF Truthy(st.current_section_name)
            THEN [st EXCEPT !.current_content =
                     IF stripped_line # "" THEN Append(@, line) ELSE @]
            ELSE st

\* SectionStep opening the new section with its header line as first content
SectionStep_header_in_content(st, line) ==
    LET stripped_line == strip(line)
        h == _is_section_header(stripped_line)
    IN IF h.is_header /\ Truthy(h.section_name)
       THEN [sections |->
                IF Truthy(st.current_section_name) /\ st.current_content # <<>>
                THEN Append(st.sections,
                            _create_section(st.current_section_name, st.current_content))
                ELSE st.sections,
             current_section_name |-> h.section_name,
             current_content |-> <<line>>]
       ELSE IF Truthy(st.current_section_name)
            THEN [st EXCEPT !.current_content =
                     IF stripped_line # "" THEN Append(@, line) ELSE @]
            ELSE st

\* SectionStep testing the line as received, not the stripped line
SectionStep_raw_line(st, line) ==
    LET stripped_line == strip(line)
        h == _is_section_header(line)
    IN IF h.is_header /\ Truthy(h.section_name)
       THEN [sections |->
                IF Truthy(st.current_section_name) /\ st.current_content # <<>>
                THEN Append(st.sections,
                            _create_section(st.current_section_name, st.current_content))
                ELSE st.sections,
             current_section_name |-> h.section_name,
             current_content |-> <<>>]
       ELSE IF Truthy(st.current_section_name)
            THEN [st EXCEPT !.current_content =
                     IF stripped_line # "" THEN Append(@, line) ELSE @]
            ELSE st

\* the body of the for loop of parser.py:85-102 applied to one line; st holds
\* sections, current_section_name and current_content
SectionStep(st, line) ==
    LET stripped_line == strip(line)
        h == _is_section_header(stripped_line)
    IN IF h.is_header /\ Truthy(h.section_name)
       THEN [sections |->
                IF Truthy(st.current_section_name) /\ st.current_content # <<>>
                THEN Append(st.sections,
                            _create_section(st.current_section_name, st.current_content))
                ELSE st.sections,
             current_section_name |-> h.section_name,
             current_content |-> <<>>]
       ELSE IF Truthy(st.current_section_name)
            THEN [st EXCEPT !.current_content =
                     IF stripped_line # "" THEN Append(@, line) ELSE @]
            ELSE st

\* SectionFinish with the fallback section holding the trimmed text
SectionFinish_trimmed(st, text) ==
    LET secs == IF Truthy(st.current_section_name) /\ st.current_content # <<>>
                THEN Append(st.sections,
                            _create_section(st.current_section_name, st.current_content))
                ELSE st.sections
    IN IF secs = <<>>
       THEN <<ResumeSection("Full Resume", strip(text), _extract_bullet_points(text))>>
       ELSE secs

\* SectionFinish without the fallback section
SectionFinish_no_fallback(st, text) ==
    IF Truthy(st.current_section_name) /\ st.current_content # <<>>
    THEN Append(st.sections,
                _create_section(st.current_section_name, st.current_content))
    ELSE st.sections

\* SectionFinish with the fallback section only for a text without any header
SectionFinish_fallback_if_no_header(st, text) ==
    LET secs == IF Truthy(st.current_section_name) /\ st.current_content # <<>>
                THEN Append(st.sections,
                            _create_section(st.current_section_name, st.current_content))
                ELSE st.sections
    IN IF secs = <<>> /\ ~Truthy(st.current_section_name)
       THEN <<ResumeSection("Full Resume", text, _extract_bullet_points(text))>>
       ELSE secs

\* parser.py:104-118: the last section and the fallback section
SectionFinish(st, text) ==
    LET secs == IF Truthy(st.current_section_name) /\ st.current_content # <<>>
                THEN Append(st.sections,
                            _create_section(st.current_section_name, st.current_content))
                ELSE st.sections
    IN IF secs = <<>>
       THEN <<ResumeSection("Full Resume", text, _extract_bullet_points(text))>>
       ELSE secs

\* the for loop of parser.py:85-102 over the lines ls from index i on
RECURSIVE SplitLoop(_, _, _)
SplitLoop(st, ls, i) ==
    IF i > Len(ls) THEN st ELSE SplitLoop(SectionStep(st, ls[i]), ls, i + 1)

\* parser.py:70-118 as a function of the text
_split_into_sections(text) ==
    SectionFinish(SplitLoop([sections |-> <<>>,
                             current_section_name |-> None,
                             current_content |-> <<>>], split_lines(text), 1), text)

-----------------------------------------------------------------------------
(* ResumeParserTool: contact information.                                  *)

\* smallest / largest element of a non-empty set of integers
Min(S) == CHOOSE x \in S : \A y \in S : x <= y
Max(S) == CHOOSE x \in S : \A y \in S : x >= y

\* every character of s[from..to] satisfies the class given as a set test
AllIn(s, from, to, class) == \A i \in from..to : At(s, i) \in class

LetterSet == UpperSet \cup LowerSet

\* regex \b between index p - 1 and index p of s
WordBoundary(s, p) == IsWordChar(At(s, p - 1)) # IsWordChar(At(s, p))

\* parser.py:34  [A-Za-z0-9._%+-] , [A-Za-z0-9.-] and [A-Z|a-z]
EmailLocalSet == LetterSet \cup DigitSet \cup {".", "_", "%", "+", "-"}
EmailDomainSet == LetterSet \cup DigitSet \cup {".", "-"}
EmailTldSet == LetterSet \cup {"|"}

\* the match of EMAIL_PATTERN that starts at index st of s, or None.  The
\* greedy quantifiers prefer the last possible dot, then the longest ending.
EmailMatchAt(s, st) ==
    LET notLocal == {i \in st..(Len(s) + 1) : At(s, i) \notin EmailLocalSet}
        a == Min(notLocal)
        ends(d) == {e \in (d + 2)..Len(s) :
                       AllIn(s, d + 1, e, EmailTldSet) /\ WordBoundary(s, e + 1)}
        dots == {d \in (a + 2)..Len(s) :
                    /\ At(s, d) = "."
                    /\ AllIn(s, a + 1, d - 1, EmailDomainSet)
                    /\ ends(d) # {}}
    IN IF /\ WordBoundary(s, st)
          /\ a > st
          /\ At(s, a) = "@"
          /\ dots # {}
       THEN SubSeq(s, st, Max(ends(Max(dots))))
       ELSE None

\* re.findall(EMAIL_PATTERN, text)[0], or None when the list is empty
FirstEmail(s) ==
    LET starts == {st \in 1..Len(s) : EmailMatchAt(s, st) # None}
    IN IF starts = {} THEN None ELSE EmailMatchAt(s, Min(starts))

\* parser.py:35  the separator class [-.\s]
PhoneSepSet == {"-", "."} \cup SpaceSet

\* the part of PHONE_PATTERN after the group,
\*   \(?\d{3}\)?[-.\s]?\d{3}[-.\s]?\d{4} , matches s from index p on
PhoneRestMatches(s, p) ==
    \E o1, o2, o3, o4 \in {0, 1} :
        LET q1 == p + o1
            q2 == q1 + 3 + o2
            q3 == q2 + o3
            q4 == q3 + 3 + o4
        IN /\ o1 = 1 => At(s, p) = "("
           /\ AllIn(s, q1, q1 + 2, DigitSet)
           /\ o2 = 1 => At(s, q1 + 3) = ")"
           /\ o3 = 1 => At(s, q2) \in PhoneSepSet
           /\ AllIn(s, q3, q3 + 2, DigitSet)
           /\ o4 = 1 => At(s, q3 + 3) \in PhoneSepSet
           /\ AllIn(s, q4, q4 + 3, DigitSet)

\* the ways the group (\+?\d{1,3}[-.\s]?) can match at index st so that the
\* rest of the pattern matches after it: <<plus, digits, separator>>
PhoneGroupChoices(s, st) ==
    {c \in {0, 1} \X {1, 2, 3} \X {0, 1} :
        /\ c[1] = 1 => At(s, st) = "+"
        /\ AllIn(s, st + c[1], st + c[1] + c[2] - 1, DigitSet)
        /\ c[3] = 1 => At(s, st + c[1] + c[2]) \in PhoneSepSet
        /\ PhoneRestMatches(s, st + c[1] + c[2] + c[3])}

\* what re.findall returns for the match of PHONE_PATTERN that starts at
\* index st: the text of the pattern's only group, "" when the group took
\* no part in the match; None when there is no match at st.  Greedy
\* quantifiers try the "+" first, then three digits, then the separator.
PhoneFindallAt(s, st) ==
    LET ch == PhoneGroupChoices(s, st)
        rank(c) == 8 * c[1] + 2 * c[2] + c[3]
        best == CHOOSE c \in ch : \A c2 \in ch : rank(c) >= rank(c2)
    IN IF ch # {} THEN SubSeq(s, st, st + best[1] + best[2] + best[3] - 1)
       ELSE IF PhoneRestMatches(s, st) THEN ""
       ELSE None

\* re.findall(PHONE_PATTERN, text)[0], or None when the list is empty
FirstPhone(s) ==
    LET starts == {st \in 1..Len(s) : PhoneFindallAt(s, st) # None}
    IN IF starts = {} THEN None ELSE PhoneFindallAt(s, Min(starts))

\* parser.py:37  linkedin\.com/in/[\w-]+  with re.IGNORECASE
LinkedinMatchAt(s, st) ==
    LET prefix == "linkedin.com/in/"
        from == st + Len(prefix)
        stop == {i \in from..(Len(s) + 1) : ~(IsWordChar(At(s, i)) \/ At(s, i) = "-")}
        e == Min(stop) - 1
    IN IF /\ from - 1 <= Len(s)
          /\ lower(SubSeq(s, st, from - 1)) = prefix
          /\ e >= from
       THEN SubSeq(s, st, e)
       ELSE None

FirstLinkedin(s) ==
    LET starts == {st \in 1..Len(s) : LinkedinMatchAt(s, st) # None}
    IN IF starts = {} THEN None ELSE LinkedinMatchAt(s, Min(starts))

\* parser.py:36  the characters excluded by the class of URL_PATTERN (the
\* backquote, which a TLA+ string cannot hold, is outside the modelled alphabet)
UrlStopSet == SpaceSet \cup {"<", ">", "\"", "{", "}", "|", "\\", "^", "[", "]", ""}

\* index of the last character of the match of URL_PATTERN that starts at
\* index st, or 0
UrlMatchEnd(s, st) ==
    LET from == IF st + 6 <= Len(s) /\ SubSeq(s, st, st + 6) = "http://" THEN st + 7
                ELSE IF st + 7 <= Len(s) /\ SubSeq(s, st, st + 7) = "https://" THEN st + 8
                ELSE 0
        stop == {i \in from..(Len(s) + 1) : At(s, i) \in UrlStopSet}
    IN IF from = 0 \/ Min(stop) = from THEN 0 ELSE Min(stop) - 1

\* re.findall(URL_PATTERN, text) restricted to matches starting at from or later
RECURSIVE UrlMatchesFrom(_, _)
UrlMatchesFrom(s, from) ==
    LET starts == {st \in from..Len(s) : UrlMatchEnd(s, st) # 0}
    IN IF starts = {} THEN <<>>
       ELSE LET st == Min(starts)
                e == UrlMatchEnd(s, st)
            IN <<SubSeq(s, st, e)>> \o UrlMatchesFrom(s, e + 1)

\* re.search(r'\d{3}[-.\s]?\d{3}[-.\s]?\d{4}', line) finds something
HasPhoneShape(line) ==
    \E st \in 1..Len(line) : \E o1, o2 \in {0, 1} :
        LET q2 == st + 3 + o1
            q3 == q2 + 3 + o2
        IN /\ AllIn(line, st, st + 2, DigitSet)
           /\ o1 = 1 => At(line, st + 3) \in PhoneSepSet
           /\ AllIn(line, q2, q2 + 2, DigitSet)
           /\ o2 = 1 => At(line, q2 + 3) \in PhoneSepSet
           /\ AllIn(line, q3, q3 + 3, DigitSet)

\* the condition of parser.py:276-279 on a stripped line
IsNameLine(line) ==
    /\ line # ""
    /\ Len(line) < 50
    /\ ~\E i \in 1..Len(line) : isdigit(At(line, i))
    /\ istitle(line) \/ (isupper(line) /\ WordCount(line) <= 4)
    /\ ~Contains("@", line)
    /\ ~HasPhoneShape(line)

\* a Python dict with str keys: a function whose domain is the set of keys
EmptyDict == [k \in {} |-> ""]
DictSet(d, key, value) ==
    [k \in (DOMAIN d) \cup {key} |-> IF k = key THEN value ELSE d[k]]

\* _extract_contact_info looking for the name in every line of the text
_extract_contact_info_all_lines(text) ==
    LET email == FirstEmail(text)
        phone == FirstPhone(text)
        linkedin == FirstLinkedin(text)
        url_matches == UrlMatchesFrom(text, 1)
        other_urls == SelectSeq(url_matches, LAMBDA u : ~Contains("linkedin.com", lower(u)))
        first5 == split_lines(text)
        names == {i \in 1..Len(first5) : IsNameLine(strip(first5[i]))}
        d1 == IF email # None THEN DictSet(EmptyDict, "email", email) ELSE EmptyDict
        d2 == IF phone # None THEN DictSet(d1, "phone", phone) ELSE d1
        d3 == IF linkedin # None THEN DictSet(d2, "linkedin", "https://" \o linkedin) ELSE d2
        d4 == IF other_urls # <<>> THEN DictSet(d3, "website", other_urls[1]) ELSE d3
    IN IF names # {} THEN DictSet(d4, "name", strip(first5[Min(names)])) ELSE d4

\* parser.py:234-284
_extract_contact_info(text) ==
    LET email == FirstEmail(text)
        phone == FirstPhone(text)
        linkedin == FirstLinkedin(text)
        url_matches == UrlMatchesFrom(text, 1)
        other_urls == SelectSeq(url_matches, LAMBDA u : ~Contains("linkedin.com", lower(u)))
        first5 == LET all == split_lines(text)
                  IN SubSeq(all, 1, IF Len(all) < 5 THEN Len(all) ELSE 5)
        names == {i \in 1..Len(first5) : IsNameLine(strip(first5[i]))}
        d1 == IF email # None THEN DictSet(EmptyDict, "email", email) ELSE EmptyDict
        d2 == IF phone # None THEN DictSet(d1, "phone", phone) ELSE d1
        d3 == IF linkedin # None THEN DictSet(d2, "linkedin", "https://" \o linkedin) ELSE d2
        d4 == IF other_urls # <<>> THEN DictSet(d3, "website", other_urls[1]) ELSE d3
    IN IF names # {} THEN DictSet(d4, "name", strip(first5[Min(names)])) ELSE d4

-----------------------------------------------------------------------------
(* ResumeTailorAgent: match score.                                         *)

\* round(num / den, 0) as Python rounds: to the nearest integer, ties to even
RoundHalfEven(num, den) ==
    LET q == num \div den
        r == num % den
    IN IF 2 * r < den THEN q
       ELSE IF 2 * r > den THEN q + 1
       ELSE IF q % 2 = 0 THEN q ELSE q + 1

\* number of items of the list whose lower-case form is a substring of resume_lower
matched_count(items, resume_lower) ==
    Cardinality({i \in 1..Len(items) : Contains(lower(items[i]), resume_lower)})

\* calculate_match_score with the resume text left in its own letter case
calculate_match_score_caseful(text, job) ==
    LET all_required_items == job.hard_skills \o job.soft_skills \o job.keywords
    IN IF all_required_items = <<>> THEN 0
       ELSE RoundHalfEven(matched_count(all_required_items, text) * 100 * 10,
                          Len(all_required_items))

\* resume_tailor.py:260-297.  The float result is represented by the integer
\* number of tenths of a percent: 1000 stands for 100.0 and 0 for 0.0.
calculate_match_score(text, job) ==
    LET resume_lower == lower(text)
        all_required_items == job.hard_skills \o job.soft_skills \o job.keywords
    IN IF all_required_items = <<>> THEN 0
       ELSE RoundHalfEven(matched_count(all_required_items, resume_lower) * 100 * 10,
                          Len(all_required_items))

\* the items of a list without repetitions, in order of first occurrence
RECURSIVE Distinct(_)
Distinct(seq) ==
    IF seq = <<>> THEN <<>>
    ELSE LET front == Distinct(SubSeq(seq, 1, Len(seq) - 1))
             last == seq[Len(seq)]
         IN IF \E i \in 1..Len(front) : front[i] = last THEN front ELSE Append(front, last)

\* JobAnalysis.get_all_keywords: the job's full keyword set as a list, each
\* keyword once; of the keyword fields the modelled job has hard_skills,
\* soft_skills and keywords
get_all_keywords(job) == Distinct(job.hard_skills \o job.soft_skills \o job.keywords)

\* identify_matched_keywords testing the keyword in its own letter case
identify_matched_keywords_caseful(text, job) ==
    LET resume_lower == lower(text)
        all_keywords == get_all_keywords(job)
    IN SelectSeq(all_keywords, LAMBDA keyword : Contains(keyword, resume_lower))

\* resume_tailor.py:299-322
identify_matched_keywords(text, job) ==
    LET resume_lower == lower(text)
        all_keywords == get_all_keywords(job)
    IN SelectSeq(all_keywords, LAMBDA keyword : Contains(lower(keyword), resume_lower))

\* the Python operator  x in list
InList(x, list) == \E i \in 1..Len(list) : list[i] = x

-----------------------------------------------------------------------------
(* KeywordExtractorAgent and ResumeTailorAgent: validation, mock paths and  *)
(* response parsing.                                                       *)

\* an operation that has not returned / has returned v
NoResult == [returned |-> FALSE]
Returned(v) == [returned |-> TRUE, value |-> v]

\* no exception / the exception of the given class with the given message
NoError == [type |-> None, message |-> ""]
Error(type, message) == [type |-> type, message |-> message]

\* keyword_extractor.py:87: least length of a stripped job description
MIN_JOB_DESCRIPTION_LENGTH == 50

\* resume_tailor.py:111: least length of a stripped resume
MIN_RESUME_LENGTH == 100

\* list.append(x) under a condition
AppendIf(seq, cond, x) == IF cond THEN Append(seq, x) ELSE seq

\* sep.join(seq)
RECURSIVE join(_, _)
join(sep, seq) ==
    IF seq = <<>> THEN ""
    ELSE IF Len(seq) = 1 THEN seq[1]
         ELSE seq[1] \o sep \o join(sep, Tail(seq))

\* json.dumps of a str without characters to escape, of a str or None, and of
\* a list of str
JsonStr(v) == "\"" \o v \o "\""
JsonOptStr(v) == IF v = None THEN "null" ELSE JsonStr(v)
JsonList(seq) == "[" \o join(", ", [i \in 1..Len(seq) |-> JsonStr(seq[i])]) \o "]"

\* json.dumps of a dict with the twelve keys of a job analysis, in the order
\* of insertion
json_dumps(data) ==
    "{" \o join(", ",
        << "\"hard_skills\": " \o JsonList(data.hard_skills),
           "\"soft_skills\": " \o JsonList(data.soft_skills),
           "\"qualifications\": " \o JsonList(data.qualifications),
           "\"experience_required\": " \o JsonStr(data.experience_required),
           "\"key_responsibilities\": " \o JsonList(data.key_responsibilities),
           "\"keywords\": " \o JsonList(data.keywords),
           "\"culture_keywords\": " \o JsonList(data.culture_keywords),
           "\"nice_to_have\": " \o JsonList(data.nice_to_have),
           "\"action_verbs\": " \o JsonList(data.action_verbs),
           "\"company_name\": " \o JsonOptStr(data.company_name),
           "\"job_title\": " \o JsonOptStr(data.job_title),
           "\"location\": " \o JsonOptStr(data.location) >>) \o "}"

\* mock_data without the default lists of lines 214-215
mock_data_without_defaults(description) ==
    LET text_lower == lower(description)
        h1 == AppendIf(<<>>, Contains("python", text_lower), "Python")
        h2 == AppendIf(h1, Contains("aws", text_lower)
                           \/ Contains("amazon web services", text_lower), "AWS")
        h3 == AppendIf(h2, Contains("docker", text_lower), "Docker")
        hard_skills == AppendIf(h3, Contains("kubernetes", text_lower)
                                    \/ Contains("k8s", text_lower), "Kubernetes")
        s1 == AppendIf(<<>>, Contains("leadership", text_lower)
                             \/ Contains("lead", text_lower), "Leadership")
        s2 == AppendIf(s1, Contains("communication", text_lower), "Communication")
        soft_skills == AppendIf(s2, Contains("team", text_lower), "Teamwork")
    IN [hard_skills |-> hard_skills,
        soft_skills |-> soft_skills,
        qualifications |-> <<"Bachelor's degree in Computer Science or related field">>,
        experience_required |-> "3-5 years",
        key_responsibilities |-> <<"Develop and maintain software applications",
                                   "Collaborate with cross-functional teams",
                                   "Participate in code reviews">>,
        keywords |-> <<"software", "development", "technical", "engineering">>,
        culture_keywords |-> <<"collaborative", "innovative">>,
        nice_to_have |-> <<"Master's degree", "Cloud certifications">>,
        action_verbs |-> <<"develop", "implement", "design", "collaborate">>,
        company_name |-> None,
        job_title |-> "Software Engineer",
        location |-> "Remote"]

\* keyword_extractor.py:197-235: the dict _mock_analysis builds
mock_data(description) ==
    LET text_lower == lower(description)
        h1 == AppendIf(<<>>, Contains("python", text_lower), "Python")
        h2 == AppendIf(h1, Contains("aws", text_lower)
                           \/ Contains("amazon web services", text_lower), "AWS")
        h3 == AppendIf(h2, Contains("docker", text_lower), "Docker")
        hard_skills == AppendIf(h3, Contains("kubernetes", text_lower)
                                    \/ Contains("k8s", text_lower), "Kubernetes")
        s1 == AppendIf(<<>>, Contains("leadership", text_lower)
                             \/ Contains("lead", text_lower), "Leadership")
        s2 == AppendIf(s1, Contains("communication", text_lower), "Communication")
        soft_skills == AppendIf(s2, Contains("team", text_lower), "Teamwork")
    IN [hard_skills |-> IF hard_skills # <<>> THEN hard_skills ELSE <<"General IT Skills">>,
        soft_skills |-> IF soft_skills # <<>> THEN soft_skills
                        ELSE <<"Communication", "Problem-solving">>,
        qualifications |-> <<"Bachelor's degree in Computer Science or related field">>,
        experience_required |-> "3-5 years",
        key_responsibilities |-> <<"Develop and maintain software applications",
                                   "Collaborate with cross-functional teams",
                                   "Participate in code reviews">>,
        keywords |-> <<"software", "development", "technical", "engineering">>,
        culture_keywords |-> <<"collaborative", "innovative">>,
        nice_to_have |-> <<"Master's degree", "Cloud certifications">>,
        action_verbs |-> <<"develop", "implement", "design", "collaborate">>,
        company_name |-> None,
        job_title |-> "Software Engineer",
        location |-> "Remote"]

\* keyword_extractor.py:187-237
_mock_analysis(description) == json_dumps(mock_data(description))

\* bedrock_client.py:109-122: the analysis a generation client may send
ClientAnalysis ==
    [hard_skills |-> <<"Python", "AWS", "Docker">>,
     soft_skills |-> <<"Communication", "Leadership">>,
     qualifications |-> <<"Bachelor's degree">>,
     experience_required |-> "3-5 years",
     key_responsibilities |-> <<"Develop software", "Lead projects">>,
     keywords |-> <<"agile", "cloud", "API">>,
     culture_keywords |-> <<"collaborative">>,
     nice_to_have |-> <<"Master's degree">>,
     action_verbs |-> <<"develop", "implement", "lead">>,
     company_name |-> "Tech Company",
     job_title |-> "Software Engineer",
     location |-> "Remote"]

\* the JobAnalysis built from the parsed response (keyword_extractor.py:175)
JobAnalysis(data) == data

\* the backquote of the Markdown code fence, written "=" here because a
\* string of this language cannot hold a backquote; no other text of the
\* model holds "="
Backquote == "="
CodeFence == Backquote \o Backquote \o Backquote
JsonFence == CodeFence \o "json"

\* str.startswith and str.endswith
startswith(s, prefix) ==
    Len(s) >= Len(prefix) /\ SubSeq(s, 1, Len(prefix)) = prefix
endswith(s, suffix) ==
    Len(s) >= Len(suffix) /\ SubSeq(s, Len(s) - Len(suffix) + 1, Len(s)) = suffix

\* JSON texts that json.loads reads as a value that is no object, and as an
\* object that JobAnalysis rejects (a number where a list of strings is due)
NonObjectJsonTexts == {"[]", "null"}
InvalidObjectTexts == {"{\"hard_skills\": 5}"}

\* _parse_response without lines 161-167
_parse_response_unfenced(resp, docs) ==
    LET cleaned_response == strip(resp)
        parsed == {data \in docs : json_dumps(data) = cleaned_response}
    IN IF parsed # {}
       THEN [result |-> Returned(JobAnalysis(CHOOSE data \in parsed : TRUE)),
             raised |-> NoError]
       ELSE IF cleaned_response \in NonObjectJsonTexts \cup InvalidObjectTexts
       THEN [result |-> NoResult,
             raised |-> Error("ValueError", "Failed to parse LLM response")]
       ELSE [result |-> NoResult,
             raised |-> Error("ValueError", "Invalid JSON response from LLM")]

\* keyword_extractor.py:144-185: the text is stripped, a leading json fence
\* or else a leading bare fence is cut off, then a trailing fence, and what
\* is left is stripped again and read as JSON, docs being the dicts whose
\* JSON text it may be. A JSON value that is no object makes JobAnalysis(**data)
\* raise TypeError and an object of wrong types makes it raise a validation
\* error, both caught at line 183; any other text is not JSON and gives the
\* ValueError of line 182
_parse_response(resp, docs) ==
    LET stripped == strip(resp)
        headless == IF startswith(stripped, JsonFence)
                    THEN SubSeq(stripped, 8, Len(stripped))
                    ELSE IF startswith(stripped, CodeFence)
                    THEN SubSeq(stripped, 4, Len(stripped))
                    ELSE stripped
        unfenced == IF endswith(headless, CodeFence)
                    THEN SubSeq(headless, 1, Len(headless) - 3)
                    ELSE headless
        cleaned_response == strip(unfenced)
        parsed == {data \in docs : json_dumps(data) = cleaned_response}
    IN IF parsed # {}
       THEN [result |-> Returned(JobAnalysis(CHOOSE data \in parsed : TRUE)),
             raised |-> NoError]
       ELSE IF cleaned_response \in NonObjectJsonTexts \cup InvalidObjectTexts
       THEN [result |-> NoResult,
             raised |-> Error("ValueError", "Failed to parse LLM response")]
       ELSE [result |-> NoResult,
             raised |-> Error("ValueError", "Invalid JSON response from LLM")]

\* the first n items of a list (list[:n])
Take(seq, n) == SubSeq(seq, 1, IF Len(seq) < n THEN Len(seq) ELSE n)

\* keyword_extractor.py:95-100: the user prompt of analyze_job_description
analysis_prompt(description) ==
    "Analyze the following job description and extract all relevant information. "
    \o "Return ONLY a valid JSON object with no additional text or markdown formatting."
    \o "\n\nJob Description:\n" \o description \o "\n\nReturn the JSON analysis:"

\* resume_tailor.py:140-209
_build_tailoring_prompt(original_resume, job, description) ==
    LET head == <<"# TASK: Tailor the following resume for a specific job opportunity\n",
                  "## ORIGINAL RESUME (DO NOT CHANGE ANY FACTS):\n",
                  CodeFence, original_resume, CodeFence \o "\n",
                  "## TARGET JOB ANALYSIS:\n">>
        p1 == AppendIf(head, Truthy(job.job_title),
                       "**Job Title**: " \o job.job_title \o "\n")
        p2 == AppendIf(p1, Truthy(job.company_name),
                       "**Company**: " \o job.company_name \o "\n")
        p3 == p2 \o <<"\n**Required Hard Skills**: " \o join(", ", job.hard_skills),
                       "\n**Required Soft Skills**: " \o join(", ", job.soft_skills),
                       "\n**Experience Level**: " \o job.experience_required,
                       "\n**Key Responsibilities**: "
                           \o join(", ", Take(job.key_responsibilities, 5)),
                       "\n**Important Keywords**: " \o join(", ", Take(job.keywords, 15)),
                       "\n**Action Verbs to Use**: "
                           \o join(", ", Take(job.action_verbs, 10))>>
        p4 == AppendIf(p3, job.qualifications # <<>>,
                       "\n**Required Qualifications**: " \o join(", ", job.qualifications))
        p5 == AppendIf(p4, job.culture_keywords # <<>>,
                       "\n**Company Culture**: " \o join(", ", job.culture_keywords))
        p6 == IF Truthy(description)
              THEN p5 \o <<"\n\n## FULL JOB DESCRIPTION (for context):\n",
                            CodeFence,
                            SubSeq(description, 1,
                                   IF Len(description) < 2000 THEN Len(description) ELSE 2000),
                            CodeFence \o "\n">>
              ELSE p5
        p7 == p6 \o <<"\n## YOUR TASK:\n",
                       "Tailor the original resume to highlight experiences and skills "
                           \o "that match the job requirements.",
                       "Remember: Only use information from the original resume. "
                           \o "Do not fabricate anything.",
                       "Incorporate the target keywords naturally. "
                           \o "Use the suggested action verbs where appropriate.",
                       "\nReturn ONLY the tailored resume in Markdown format with clear "
                           \o "sections and bullet points.",
                       "Do not include any explanations or comments - "
                           \o "just the resume itself.\n",
                       "\n**Tailored Resume:**\n">>
    IN join("\n", p7)

\* bedrock_client.py:124-131: the Markdown resume of MockLLMClient
MockMarkdown ==
    "## Professional Summary\nExperienced professional seeking new opportunities.\n\n"
    \o "## Work Experience\nSoftware Engineer | Company | 2020-Present\n"
    \o "- Developed applications\n- Led projects\n"

\* bedrock_client.py:97-131: MockLLMClient.generate
MockLLMClient_generate(system_prompt, user_prompt) ==
    IF Contains("job description", lower(user_prompt))
    THEN json_dumps(ClientAnalysis)
    ELSE MockMarkdown

\* resume_tailor.py:233-258
_mock_tailoring(original_resume, job) ==
    LET keywords_str == join(", ", Take(job.hard_skills, 5))
        job_title == IF Truthy(job.job_title) THEN job.job_title ELSE "Target Position"
    IN "## Professional Summary\n\nExperienced professional with expertise in "
       \o keywords_str
       \o ". Proven track record of delivering results in dynamic environments. "
       \o "Seeking to leverage skills and experience in the " \o job_title \o " role.\n\n## "
       \o original_resume \o "\n\n---\n*Resume tailored for: " \o job_title
       \o "*\n*Key skills highlighted: " \o keywords_str \o "*\n"

-----------------------------------------------------------------------------
(* FileReaderTool.  What lies behind a path is a record: stat tells whether *)
(* the file system finds the path ("found"), reports it missing ("missing") *)
(* or refuses to examine it ("refused": a name longer than the system      *)
(* allows, a directory that may not be searched); strict tells whether      *)
(* Path.exists() of the running interpreter raises the OSError of a         *)
(* refusal or answers False; readable tells whether the file can be opened  *)
(* and decoded by the reader of its format; parts are its lines (text),     *)
(* the texts of its pages (PDF) or of its paragraphs (DOCX).                *)

\* file_reader.py:18
SUPPORTED_EXTENSIONS == <<".txt", ".pdf", ".docx", ".doc">>

\* Path(file_path).suffix for a path without directory part: the name from
\* its last dot on, unless that dot is its first or its last character
suffix(name) ==
    LET dots == {i \in 1..Len(name) : At(name, i) = "."}
    IN IF dots = {} THEN ""
       ELSE IF Max(dots) > 1 /\ Max(dots) < Len(name)
            THEN SubSeq(name, Max(dots), Len(name))
            ELSE ""

\* path.exists(): the answer, or the OSError of a refusal
path_exists(fs) ==
    IF fs.stat = "refused" /\ fs.strict
    THEN [value |-> FALSE, raised |-> Error("OSError", "File name too long")]
    ELSE [value |-> fs.stat = "found", raised |-> NoError]

\* file_reader.py:76-98
_read_text(fs) ==
    IF ~fs.readable
    THEN [result |-> NoResult, raised |-> Error("PermissionError", "Permission denied")]
    ELSE [result |-> Returned(join_lines(fs.parts)), raised |-> NoError]

\* file_reader.py:100-146
_read_pdf(fs) ==
    LET text_content == SelectSeq(fs.parts, LAMBDA text : text # "")
        full_text == join_lines(text_content)
    IN IF ~fs.readable
       THEN [result |-> NoResult,
             raised |-> Error("ValueError", "Failed to read PDF file: EOF marker not found")]
       ELSE IF strip(full_text) = ""
            THEN [result |-> NoResult,
                  raised |-> Error("ValueError", "Failed to read PDF file: "
                                   \o "No text could be extracted from the PDF")]
            ELSE [result |-> Returned(full_text), raised |-> NoError]

\* file_reader.py:148-183
_read_docx(fs) ==
    LET paragraphs == SelectSeq(fs.parts, LAMBDA text : strip(text) # "")
        full_text == join_lines(paragraphs)
    IN IF ~fs.readable
       THEN [result |-> NoResult,
             raised |-> Error("ValueError", "Failed to read DOCX file: File is not a zip file")]
       ELSE IF strip(full_text) = ""
            THEN [result |-> NoResult,
                  raised |-> Error("ValueError", "Failed to read DOCX file: "
                                   \o "No text could be extracted from the DOCX file")]
            ELSE [result |-> Returned(full_text), raised |-> NoError]

\* read_file without the check of file_reader.py:65-67
read_file_unchecked(path, fs) ==
    LET found == path_exists(fs)
        ext == lower(suffix(path))
        read == IF ext = ".pdf" THEN _read_pdf(fs)
                ELSE IF ext \in {".docx", ".doc"} THEN _read_docx(fs)
                ELSE _read_text(fs)
    IN IF found.raised # NoError THEN [result |-> NoResult, raised |-> found.raised]
       ELSE IF ~found.value
       THEN [result |-> NoResult,
             raised |-> Error("FileNotFoundError", "File not found: " \o path)]
       ELSE IF ~InList(ext, SUPPORTED_EXTENSIONS)
       THEN [result |-> NoResult,
             raised |-> Error("ValueError", "Unsupported file format: " \o suffix(path)
                              \o ". Supported formats: " \o join(", ", SUPPORTED_EXTENSIONS))]
       ELSE read

\* file_reader.py:24-74
read_file(path, fs) ==
    LET found == path_exists(fs)
        ext == lower(suffix(path))
        read == IF ext = ".pdf" THEN _read_pdf(fs)
                ELSE IF ext \in {".docx", ".doc"} THEN _read_docx(fs)
                ELSE _read_text(fs)
    IN IF found.raised # NoError THEN [result |-> NoResult, raised |-> found.raised]
       ELSE IF ~found.value
       THEN [result |-> NoResult,
             raised |-> Error("FileNotFoundError", "File not found: " \o path)]
       ELSE IF ~InList(ext, SUPPORTED_EXTENSIONS)
       THEN [result |-> NoResult,
             raised |-> Error("ValueError", "Unsupported file format: " \o suffix(path)
                              \o ". Supported formats: " \o join(", ", SUPPORTED_EXTENSIONS))]
       ELSE IF read.raised # NoError THEN read
       ELSE IF read.result.value = "" \/ strip(read.result.value) = ""
       THEN [result |-> NoResult,
             raised |-> Error("ValueError",
                              "File is empty or contains no readable text: " \o path)]
       ELSE read

\* file_reader.py:185-196
validate_file(path, fs) ==
    LET found == path_exists(fs)
    IN IF found.raised # NoError THEN [result |-> NoResult, raised |-> found.raised]
       ELSE [result |-> Returned(found.value
                                 /\ InList(lower(suffix(path)), SUPPORTED_EXTENSIONS)),
             raised |-> NoError]

-----------------------------------------------------------------------------
(* Inputs.                                                                 *)

\* all sequences over S of length 0..n
SeqsUpTo(S, n) == UNION {[1..k -> S] : k \in 0..n}

\* lines of short resume bodies: known section titles, heuristic headers,
\* content lines, bullet lines and blank lines
BodyLines ==
    { "WORK EXPERIENCE", "Core Competencies", "Skills:", "PAPERS",
      "Profile & Employment History", "ACME CORP", "Jane Doe:",
      "- Led a team of 5 engineers", " * python ", "2. sql", "  built apis ",
      "", "  " }

\* lines of longer resume bodies: two headers with one normalized name, a
\* third known title, a heuristic header, two content lines and a blank line
CoreLines ==
    { "Core Competencies", "Skills:", "WORK EXPERIENCE", "ACME CORP",
      " * python ", "  built apis ", "" }

\* lines of contact blocks
ContactLines ==
    { "Reach me at jane.doe@example.com or 415-555-0100",
      "+1 (415) 555-0100 | j@x.io",
      "Jane Doe",
      "linkedin.com/in/jane-doe https://www.linkedin.com/in/jd",
      "see https://jane.dev/cv" }

\* lines of the head of a resume: a title-case name, an all-caps name, a
\* lower-case line and an empty line
NameLines == {"Jane Doe", "JOHN ROE", "jane doe", ""}

\* lines at the edges of the name rule: padded with whitespace; title-case
\* and all-caps with five words; all-caps only with five words; title-case
\* with a digit; title-case with "@"; title-case of 50 and of 49 characters;
\* title-case with uncased characters inside the words
NameEdgeLines ==
    { "  Jane Doe  ", "A B C D E", "ACME GLOBAL TRADE AND CO", "Jane Doe 2",
      "Jane@Doe", "Jane Doe Of The House Of Very Long Names And Title",
      "Jane Doe Of The House Of Very Long Names And Titl", "Dr. Jane O'Neil" }

NameTexts ==
    {join_lines(ls) : ls \in SeqsUpTo(NameLines, MaxNameLines)}
    \cup {join_lines(ls) : ls \in SeqsUpTo(NameEdgeLines, MaxNameEdgeLines)}

\* the text the inputs of the agents are cut from
AgentBaseText ==
    "Senior Python engineer to lead our cloud team: AWS, Docker, strong "
    \o "communication; remote role, 5+ years of experience wanted."

\* n times the character c
RECURSIVE Repeat(_, _)
Repeat(c, n) == IF n = 0 THEN "" ELSE c \o Repeat(c, n - 1)

\* the first n characters of the base text for each n of the set, with up to
\* MaxPad blanks before and up to MaxPad newlines after
PaddedTexts(lengths) ==
    {Repeat(" ", a) \o SubSeq(AgentBaseText, 1, n) \o Repeat("\n", b) :
        a \in 0..MaxPad, b \in 0..MaxPad, n \in lengths}

\* lines around header detection: a known title, a heuristic header with a
\* colon, a content line and an empty line, each with up to MaxPad blanks
\* before and after
HeaderLines ==
    { Repeat(" ", a) \o l \o Repeat(" ", b) :
        l \in {"SKILLS", "Jane Doe:", "built apis", ""}, a \in 0..MaxPad, b \in 0..MaxPad }

HeaderTexts == {join_lines(ls) : ls \in SeqsUpTo(HeaderLines, MaxHeaderLines)}

\* job descriptions that name no skill of _mock_analysis, only hard skills
\* (by their second spelling) and only soft skills
PlainDescriptions ==
    {"We are hiring a person who likes to work on hard problems.",
     "Kubernetes (K8S) on Amazon Web Services is what we run all day long.",
     "Good COMMUNICATION in a small group is what we ask of every hire."}

\* job descriptions and resumes at and around the least lengths
JobDescriptions ==
    PaddedTexts({0, MIN_JOB_DESCRIPTION_LENGTH - 1, MIN_JOB_DESCRIPTION_LENGTH})
    \cup PlainDescriptions
Resumes == PaddedTexts({0, MIN_RESUME_LENGTH - 1, MIN_RESUME_LENGTH})

\* the job_description argument of tailor_resume: left out, or the full
\* description as process_resume passes it (main.py:93-97)
TailorDescriptions == {"", "We are hiring a person who likes to work on hard problems."}

\* the job analyses handed to tailor_resume
TailorJobs == {ClientAnalysis, mock_data("")}

\* what model_client.generate may do: hand back a text, JSON or not, or
\* raise (bedrock_client.py:89-91)
\* a text with or without a leading fence and a trailing fence, set off by
\* nothing or by a newline
FenceLeads == {"", CodeFence, JsonFence}
FenceTrails == {"", CodeFence}
FenceGaps == {"", "\n"}
Fenced(text) ==
    {lead \o g1 \o text \o g2 \o trail :
        lead \in FenceLeads, g1 \in FenceGaps, g2 \in FenceGaps, trail \in FenceTrails}

LLMResponses ==
    Fenced(json_dumps(ClientAnalysis))
    \cup {" " \o JsonFence \o "\n" \o json_dumps(ClientAnalysis) \o "\n" \o CodeFence \o "\n"}
    \cup Fenced("[]")
    \cup {"I cannot help with that.", "", CodeFence, JsonFence \o CodeFence,
          "{\"hard_skills\": 5}", "null",
          CodeFence \o "JSON\n" \o json_dumps(ClientAnalysis) \o "\n" \o CodeFence,
          CodeFence \o " json\n" \o json_dumps(ClientAnalysis) \o "\n" \o CodeFence,
          "Here is the analysis:\n" \o JsonFence \o "\n" \o json_dumps(ClientAnalysis)
              \o "\n" \o CodeFence}
LLMErrors == {Error("Exception", "Failed to generate response: ThrottlingException")}

\* the dicts whose JSON text a response of the model may be
AnalysisDocs == {ClientAnalysis} \cup {mock_data(jd) : jd \in JobDescriptions}

\* file names: supported extensions in lower, upper and mixed case, an
\* unsupported one, none, a leading dot only, a trailing dot, two dots
FileNames ==
    { "cv.txt", "cv.TXT", "cv.pdf", "CV.Docx", "cv.doc", "cv.md", "cv", ".txt",
      "cv.txt.", "cv.tar.pdf" }

\* lines, page texts or paragraph texts of a file
FileParts == {"", "  ", "Jane Doe"}

\* what may lie behind a path
FileSystems ==
    [stat : {"missing", "refused"}, strict : BOOLEAN, readable : {FALSE}, parts : {<<>>}]
    \cup [stat : {"found"}, strict : BOOLEAN, readable : BOOLEAN,
          parts : SeqsUpTo(FileParts, MaxParts)]

ParserTexts ==
    {join_lines(ls) : ls \in SeqsUpTo(CoreLines, MaxLines)}
    \cup {join_lines(ls) : ls \in SeqsUpTo(BodyLines, MaxBodyLines)}
    \cup {join_lines(ls) : ls \in SeqsUpTo(ContactLines, MaxContactLines)}

\* requirement items and resume blobs of the scorer
ScoreItems == {"AI", "python"}
ScoreTexts == {"", "Paid intern", "PYTHON and SQL", "Python, AI, Go"}

\* the fields of JobAnalysis that calculate_match_score reads
JobAnalyses ==
    [hard_skills : SeqsUpTo(ScoreItems, MaxItems),
     soft_skills : SeqsUpTo(ScoreItems, MaxItems),
     keywords : SeqsUpTo(ScoreItems, MaxItems)]

EmptyJob == [hard_skills |-> <<>>, soft_skills |-> <<>>, keywords |-> <<>>]

\* requirement items, resume texts to start from and pieces of text to add
\* before or after a resume, with and without the letter sigma
GrowingItems == {"ai", "A" \o CapitalSigma}
GrowingTexts == {"", "AI", "A" \o CapitalSigma}
Additions == {"", " ", "B"}

GrowingJobs ==
    [hard_skills : SeqsUpTo(GrowingItems, MaxItems),
     soft_skills : {<<>>},
     keywords : SeqsUpTo(GrowingItems, 1)]

\* keywords of the jobs given to the /analyze endpoint: two of them differ
\* in letter case only
KeywordItems == {"AI", "python", "Python"}

KeywordJobs ==
    [hard_skills : SeqsUpTo(KeywordItems, MaxItems),
     soft_skills : SeqsUpTo(KeywordItems, 1),
     keywords : SeqsUpTo(KeywordItems, MaxItems)]

-----------------------------------------------------------------------------
(* The components an operation leaves alone.                               *)

\* config/settings.py:19-31: the fields of Settings the factory reads, with
\* their defaults
DefaultSettings ==
    [model_provider |-> "bedrock",
     model_id |-> "us.anthropic.claude-sonnet-4-20250514-v1:0",
     openai_api_key |-> None,
     openai_model_id |-> "gpt-4"]

\* provider names: the three the factory documents, one in another case, the
\* empty one and an unknown one
ModelProviders == {"bedrock", "openai", "anthropic", "Bedrock", "", "azure"}

\* model_id arguments: absent, empty, given
ModelIds == {None, "", "gpt-4o"}

\* OPENAI_API_KEY in the environment: unset, empty, set
ApiKeys == {None, "", "sk-test"}

\* the settings singleton when the factory is called: as loaded, with the
\* provider of the environment or of an earlier call
LoadedSettings ==
    { [DefaultSettings EXCEPT !.model_provider = p, !.openai_api_key = k] :
        p \in {"bedrock", "openai"}, k \in ApiKeys }

\* parser.py:39-41: the only attribute of a ResumeParserTool
NewParser == [compiled_patterns |-> SECTION_PATTERNS]

\* the threads
Threads == 1..MaxThreads

\* the routines a thread may call
ThreadOps == {"parse_resume", "calculate_match_score", "identify_matched_keywords"}

\* texts given by the threads: two sections, a title-case first line that
\* opens a section, no header at all
ThreadTexts ==
    { join_lines(<<"SKILLS", "python", "EDUCATION", "BSc">>),
      join_lines(<<"Jane Doe", "AI and Go">>),
      "paid intern" }

\* the JobAnalysis the threads share
ThreadJobs ==
    { EmptyJob,
      [hard_skills |-> <<"Python", "AI">>, soft_skills |-> <<"python">>,
       keywords |-> <<"AI", "SQL">>] }

\* the locals of a call that has not begun
NewThread(op, text) ==
    [op |-> op,
     text |-> text,
     pc |-> "start",
     lines |-> <<>>,
     idx |-> 1,
     st |-> [sections |-> <<>>, current_section_name |-> None, current_content |-> <<>>],
     contact_info |-> EmptyDict,
     items |-> <<>>,
     matched |-> <<>>,
     result |-> NoResult]

\* no file behind a path
NoFile == [stat |-> "missing", strict |-> FALSE, readable |-> FALSE, parts |-> <<>>]

IdleParser ==
    /\ lines = <<>>
    /\ idx = 1
    /\ sections = <<>>
    /\ current_section_name = None
    /\ current_content = <<>>
    /\ contact_info = EmptyDict

IdleAnalysis == matched_keywords = <<>> /\ missing_keywords = <<>>

IdleAgent ==
    /\ operation = None
    /\ job_description = ""
    /\ model_client = None
    /\ generate_calls = 0
    /\ mock_calls = 0
    /\ response = None
    /\ llm_error = NoError

IdleOutcome == result = NoResult /\ raised = NoError

IdleFile ==
    /\ file_path = ""
    /\ file_system = NoFile
    /\ is_valid = NoResult
    /\ validate_raised = NoError

IdleFactory ==
    /\ model_provider = ""
    /\ model_id = None
    /\ use_mock = FALSE
    /\ settings = DefaultSettings

IdleThreads == threads = <<>> /\ parser = NewParser

IdleSanitize == filename = "" /\ max_length = 255

NoCalls == [analysis |-> 0, tailoring |-> 0]

IdlePipeline ==
    /\ request = None
    /\ steps_started = <<>>
    /\ steps_done = <<>>
    /\ calls = NoCalls
    /\ written = {}

\* no call made yet
NoCall == [op |-> "", instance |-> 0, seen |-> DefaultSettings, model_id |-> None,
           outcome |-> [result |-> NoResult, raised |-> NoError]]

IdleSingleton ==
    /\ environment = DefaultSettings
    /\ heap = <<>>
    /\ _settings = 0
    /\ created_by = <<>>
    /\ override_log = <<>>
    /\ last_call = NoCall
    /\ ncalls = 0

IdleApi ==
    /\ endpoint = ""
    /\ upload = [filename |-> ""]
    /\ temp_resume_path = None
    /\ temp_files = {}
    /\ http_status = 0

IdleSystem == IdleSanitize /\ IdlePipeline /\ IdleSingleton /\ IdleApi

-----------------------------------------------------------------------------
(* parse_resume as a state machine.                                        *)

Init ==
    /\ pc = "ready"
    /\ resume_text \in ParserTexts
    /\ lines = <<>>
    /\ idx = 1
    /\ sections = <<>>
    /\ current_section_name = None
    /\ current_content = <<>>
    /\ contact_info = EmptyDict
    /\ job_analysis = EmptyJob
    /\ match_score = None
    /\ IdleAnalysis /\ IdleAgent /\ IdleOutcome /\ IdleFile /\ IdleFactory /\ IdleThreads /\ IdleSystem

\* parser.py:43-59 and 80-83: contact extraction, then the set-up of the loop
ParseResumeStart ==
    /\ pc = "ready"
    /\ contact_info' = _extract_contact_info(resume_text)
    /\ lines' = split_lines(resume_text)
    /\ idx' = 1
    /\ sections' = <<>>
    /\ current_section_name' = None
    /\ current_content' = <<>>
    /\ pc' = "loop"
    /\ UNCHANGED <<resume_text, job_analysis, match_score, outcomeVars>>
    /\ UNCHANGED <<analysisVars, agentVars, fileVars, factoryVars, threadVars, systemVars>>

\* parser.py:85-102: one iteration of the loop over the lines
SplitLine ==
    /\ pc = "loop"
    /\ idx <= Len(lines)
    /\ LET st == SectionStep([sections |-> sections,
                              current_section_name |-> current_section_name,
                              current_content |-> current_content], lines[idx])
       IN /\ sections' = st.sections
          /\ current_section_name' = st.current_section_name
          /\ current_content' = st.current_content
    /\ idx' = idx + 1
    /\ UNCHANGED <<pc, resume_text, lines, contact_info, job_analysis, match_score,
                   outcomeVars>>
    /\ UNCHANGED <<analysisVars, agentVars, fileVars, factoryVars, threadVars, systemVars>>

\* parser.py:104-118 and 61-68: the last section, the fallback, the result
SplitFinish ==
    /\ pc = "loop"
    /\ idx > Len(lines)
    /\ sections' = SectionFinish([sections |-> sections,
                                  current_section_name |-> current_section_name,
                                  current_content |-> current_content], resume_text)
    /\ result' = Returned(ParsedResume(resume_text, sections', contact_info))
    /\ pc' = "done"
    /\ UNCHANGED <<resume_text, lines, idx, current_section_name, current_content,
                   contact_info, job_analysis, match_score, raised>>
    /\ UNCHANGED <<analysisVars, agentVars, fileVars, factoryVars, threadVars, systemVars>>

Next == ParseResumeStart \/ SplitLine \/ SplitFinish

Spec == Init /\ [][Next]_vars

\* parse_resume on texts with whitespace around their lines
InitHeader ==
    /\ pc = "ready"
    /\ resume_text \in HeaderTexts
    /\ job_analysis = EmptyJob
    /\ match_score = None
    /\ IdleParser /\ IdleAnalysis /\ IdleAgent /\ IdleOutcome
    /\ IdleFile /\ IdleFactory /\ IdleThreads /\ IdleSystem

SpecHeader == InitHeader /\ [][Next]_vars

-----------------------------------------------------------------------------
(* _extract_contact_info on its own.                                       *)

InitContact ==
    /\ pc = "ready"
    /\ resume_text \in NameTexts
    /\ job_analysis = EmptyJob
    /\ match_score = None
    /\ IdleParser /\ IdleAnalysis /\ IdleAgent /\ IdleOutcome
    /\ IdleFile /\ IdleFactory /\ IdleThreads /\ IdleSystem

\* parser.py:234-284
ExtractContactInfo ==
    /\ pc = "ready"
    /\ contact_info' = _extract_contact_info(resume_text)
    /\ pc' = "extracted"
    /\ UNCHANGED <<resume_text, lines, idx, sections, current_section_name,
                   current_content, job_analysis, match_score, analysisVars, agentVars,
                   outcomeVars, fileVars, factoryVars, threadVars, systemVars>>

NextContact == ExtractContactInfo

SpecContact == InitContact /\ [][NextContact]_vars

-----------------------------------------------------------------------------
(* calculate_match_score as a state machine.                               *)

InitMatch ==
    /\ pc = "ready"
    /\ resume_text \in ScoreTexts
    /\ job_analysis \in JobAnalyses
    /\ lines = <<>>
    /\ idx = 1
    /\ sections = <<>>
    /\ current_section_name = None
    /\ current_content = <<>>
    /\ contact_info = EmptyDict
    /\ match_score = None
    /\ IdleAnalysis /\ IdleAgent /\ IdleOutcome /\ IdleFile /\ IdleFactory /\ IdleThreads /\ IdleSystem

\* resume_tailor.py:260-297
CalculateMatchScore ==
    /\ pc = "ready"
    /\ match_score' = calculate_match_score(resume_text, job_analysis)
    /\ pc' = "scored"
    /\ UNCHANGED <<resume_text, lines, idx, sections, current_section_name,
                   current_content, contact_info, job_analysis, outcomeVars>>
    /\ UNCHANGED <<analysisVars, agentVars, fileVars, factoryVars, threadVars, systemVars>>

NextMatch == CalculateMatchScore

SpecMatch == InitMatch /\ [][NextMatch]_vars

-----------------------------------------------------------------------------
(* The keyword part of the /analyze endpoint as a state machine.           *)

InitAnalyze ==
    /\ pc = "ready"
    /\ resume_text \in ScoreTexts
    /\ job_analysis \in KeywordJobs
    /\ match_score = None
    /\ IdleParser /\ IdleAnalysis /\ IdleAgent /\ IdleOutcome
    /\ IdleFile /\ IdleFactory /\ IdleThreads /\ IdleSystem

\* api_example.py:146
IdentifyMatchedKeywords ==
    /\ pc = "scored"
    /\ matched_keywords' = identify_matched_keywords(resume_text, job_analysis)
    /\ pc' = "matched"
    /\ UNCHANGED <<resume_text, parserVars, job_analysis, match_score, missing_keywords,
                   agentVars, outcomeVars, fileVars, factoryVars, threadVars, systemVars>>

\* api_example.py:147-148
ComputeMissingKeywords ==
    /\ pc = "matched"
    /\ LET all_keywords == get_all_keywords(job_analysis)
       IN missing_keywords' =
              SelectSeq(all_keywords, LAMBDA kw : ~InList(kw, matched_keywords))
    /\ pc' = "analyzed"
    /\ UNCHANGED <<resume_text, parserVars, job_analysis, match_score, matched_keywords,
                   agentVars, outcomeVars, fileVars, factoryVars, threadVars, systemVars>>

\* api_example.py:143-148
NextAnalyze == CalculateMatchScore \/ IdentifyMatchedKeywords \/ ComputeMissingKeywords

SpecAnalyze == InitAnalyze /\ [][NextAnalyze]_vars

-----------------------------------------------------------------------------
(* analyze_job_description and tailor_resume as a state machine.           *)

InitAgent ==
    /\ pc = "ready"
    /\ operation \in {"analyze_job_description", "tailor_resume"}
    /\ model_client \in {None, "BedrockClient", "MockLLMClient"}
    /\ IF operation = "analyze_job_description"
       THEN /\ job_description \in JobDescriptions
            /\ resume_text = ""
            /\ job_analysis = EmptyJob
       ELSE /\ job_description \in TailorDescriptions
            /\ resume_text \in Resumes
            /\ job_analysis \in TailorJobs
    /\ generate_calls = 0
    /\ mock_calls = 0
    /\ response = None
    /\ llm_error = NoError
    /\ match_score = None
    /\ IdleParser /\ IdleAnalysis /\ IdleOutcome /\ IdleFile /\ IdleFactory /\ IdleThreads /\ IdleSystem

\* AgentValidate measuring the text as received
AgentValidate_unstripped ==
    /\ pc = "ready"
    /\ IF operation = "analyze_job_description"
       THEN IF Len(job_description) < MIN_JOB_DESCRIPTION_LENGTH
            THEN /\ raised' = Error("ValueError",
                     "Job description is too short to analyze (minimum 50 characters)")
                 /\ pc' = "raised"
            ELSE /\ pc' = "validated"
                 /\ UNCHANGED raised
       ELSE IF Len(resume_text) < MIN_RESUME_LENGTH
            THEN /\ raised' = Error("ValueError",
                     "Original resume is too short to process (minimum 100 characters)")
                 /\ pc' = "raised"
            ELSE /\ pc' = "validated"
                 /\ UNCHANGED raised
    /\ UNCHANGED <<resume_text, parserVars, job_analysis, match_score, analysisVars,
                   agentVars, result, fileVars, factoryVars, threadVars, systemVars>>

\* keyword_extractor.py:87-88 and resume_tailor.py:111-112
AgentValidate ==
    /\ pc = "ready"
    /\ IF operation = "analyze_job_description"
       THEN IF Len(strip(job_description)) < MIN_JOB_DESCRIPTION_LENGTH
            THEN /\ raised' = Error("ValueError",
                     "Job description is too short to analyze (minimum 50 characters)")
                 /\ pc' = "raised"
            ELSE /\ pc' = "validated"
                 /\ UNCHANGED raised
       ELSE IF Len(strip(resume_text)) < MIN_RESUME_LENGTH
            THEN /\ raised' = Error("ValueError",
                     "Original resume is too short to process (minimum 100 characters)")
                 /\ pc' = "raised"
            ELSE /\ pc' = "validated"
                 /\ UNCHANGED raised
    /\ UNCHANGED <<resume_text, parserVars, job_analysis, match_score, analysisVars,
                   agentVars, result, fileVars, factoryVars, threadVars, systemVars>>

\* keyword_extractor.py:108 and resume_tailor.py:129: the text of the mock path
MockResponse ==
    IF operation = "analyze_job_description"
    THEN _mock_analysis(job_description)
    ELSE _mock_tailoring(resume_text, job_analysis)

\* AgentCallLLM taking the mock path when generate fails
AgentCallLLM_fallback ==
    /\ pc = "validated"
    /\ Truthy(model_client)
    /\ model_client # "MockLLMClient"
    /\ generate_calls' = generate_calls + 1
    /\ \/ \E text \in LLMResponses :
             /\ response' = text
             /\ pc' = "generated"
             /\ UNCHANGED <<llm_error, raised, mock_calls>>
       \/ \E e \in LLMErrors :
             /\ llm_error' = e
             /\ mock_calls' = mock_calls + 1
             /\ response' = MockResponse
             /\ pc' = "generated"
             /\ UNCHANGED raised
    /\ UNCHANGED <<resume_text, parserVars, job_analysis, match_score, analysisVars,
                   operation, job_description, model_client, result,
                   fileVars, factoryVars, threadVars, systemVars>>

\* keyword_extractor.py:103-104, 122-142 and 118-120; resume_tailor.py:124-125,
\* 211-231 and 136-138: one generate call; its exception is logged and
\* raised again by _call_llm and by the operation
AgentCallLLM ==
    /\ pc = "validated"
    /\ Truthy(model_client)
    /\ model_client # "MockLLMClient"
    /\ generate_calls' = generate_calls + 1
    /\ \/ \E text \in LLMResponses :
             /\ response' = text
             /\ pc' = "generated"
             /\ UNCHANGED <<llm_error, raised>>
       \/ \E e \in LLMErrors :
             /\ llm_error' = e
             /\ raised' = e
             /\ pc' = "raised"
             /\ UNCHANGED response
    /\ UNCHANGED <<resume_text, parserVars, job_analysis, match_score, analysisVars,
                   operation, job_description, model_client, mock_calls, result,
                   fileVars, factoryVars, threadVars, systemVars>>

\* keyword_extractor.py:93-104 and resume_tailor.py:121-125: the prompt handed
\* to generate
UserPrompt ==
    IF operation = "analyze_job_description"
    THEN analysis_prompt(job_description)
    ELSE _build_tailoring_prompt(resume_text, job_analysis, job_description)

\* the generate call of _call_llm when the client is a MockLLMClient
\* (bedrock_client.py:97-131), which reads the user prompt only
AgentCallMockClient ==
    /\ pc = "validated"
    /\ model_client = "MockLLMClient"
    /\ generate_calls' = generate_calls + 1
    /\ response' = MockLLMClient_generate("", UserPrompt)
    /\ pc' = "generated"
    /\ UNCHANGED <<resume_text, parserVars, job_analysis, match_score, analysisVars,
                   operation, job_description, model_client, mock_calls, llm_error,
                   outcomeVars, fileVars, factoryVars, threadVars, systemVars>>

\* keyword_extractor.py:105-108 and resume_tailor.py:126-129
AgentCallMock ==
    /\ pc = "validated"
    /\ ~Truthy(model_client)
    /\ mock_calls' = mock_calls + 1
    /\ response' = MockResponse
    /\ pc' = "generated"
    /\ UNCHANGED <<resume_text, parserVars, job_analysis, match_score, analysisVars,
                   operation, job_description, model_client, generate_calls, llm_error,
                   outcomeVars, fileVars, factoryVars, threadVars, systemVars>>

\* keyword_extractor.py:110-120 and resume_tailor.py:131-138
AgentReturn ==
    /\ pc = "generated"
    /\ IF operation = "analyze_job_description"
       THEN LET parsed == _parse_response(response, AnalysisDocs)
            IN /\ result' = parsed.result
               /\ raised' = parsed.raised
               /\ pc' = IF parsed.result.returned THEN "returned" ELSE "raised"
       ELSE /\ result' = Returned(response)
            /\ pc' = "returned"
            /\ UNCHANGED raised
    /\ UNCHANGED <<resume_text, parserVars, job_analysis, match_score, analysisVars,
                   agentVars, fileVars, factoryVars, threadVars, systemVars>>

NextAgent ==
    AgentValidate \/ AgentCallLLM \/ AgentCallMockClient \/ AgentCallMock \/ AgentReturn

SpecAgent == InitAgent /\ [][NextAgent]_vars

-----------------------------------------------------------------------------
(* FileReaderTool.read_file and validate_file on one path.                 *)

InitFile ==
    /\ pc = "ready"
    /\ file_path \in FileNames
    /\ file_system \in FileSystems
    /\ is_valid = NoResult
    /\ validate_raised = NoError
    /\ resume_text = ""
    /\ job_analysis = EmptyJob
    /\ match_score = None
    /\ IdleParser /\ IdleAnalysis /\ IdleAgent /\ IdleOutcome /\ IdleFactory /\ IdleThreads /\ IdleSystem

\* read_file has been called and has ended
ReadDone == result.returned \/ raised # NoError

\* validate_file has been called and has ended
ValidateDone == is_valid.returned \/ validate_raised # NoError

\* file_reader.py:24-74
ReadFile ==
    /\ ~ReadDone
    /\ LET out == read_file(file_path, file_system)
       IN result' = out.result /\ raised' = out.raised
    /\ UNCHANGED <<pc, resume_text, parserVars, job_analysis, match_score, analysisVars,
                   agentVars, fileVars, factoryVars, threadVars, systemVars>>

\* file_reader.py:185-196
ValidateFile ==
    /\ ~ValidateDone
    /\ LET out == validate_file(file_path, file_system)
       IN is_valid' = out.result /\ validate_raised' = out.raised
    /\ UNCHANGED <<pc, resume_text, parserVars, job_analysis, match_score, analysisVars,
                   agentVars, outcomeVars, file_path, file_system, factoryVars, threadVars, systemVars>>

NextFile == ReadFile \/ ValidateFile

SpecFile == InitFile /\ [][NextFile]_vars

-----------------------------------------------------------------------------
(* create_resume_tailor_system, one call. The client libraries are taken   *)
(* to be installed and the output directory to be writable, so that the    *)
(* constructors of lines 287, 299 and 306 succeed.                         *)

\* main.py:268-274: the singleton after the overrides
override_settings(current, provider, id) ==
    LET with_id == IF Truthy(id) THEN [current EXCEPT !.model_id = id] ELSE current
    IN IF Truthy(provider) THEN [with_id EXCEPT !.model_provider = provider] ELSE with_id

\* main.py:283-304: the client, or the error raised in its place
create_model_client(current, provider, id, mock) ==
    IF mock
    THEN [result |-> Returned([class |-> "MockLLMClient", model_id |-> None]),
          raised |-> NoError]
    ELSE IF provider = "bedrock"
    THEN [result |-> Returned([class |-> "BedrockClient", model_id |-> current.model_id]),
          raised |-> NoError]
    ELSE IF provider = "openai"
    THEN IF ~Truthy(current.openai_api_key)
         THEN [result |-> NoResult,
               raised |-> Error("ValueError", "OPENAI_API_KEY not set in .env file")]
         ELSE [result |-> Returned([class |-> "OpenAIClient",
                                    model_id |-> IF Truthy(id) THEN id
                                                 ELSE current.openai_model_id]),
               raised |-> NoError]
    ELSE [result |-> NoResult,
          raised |-> Error("ValueError", "Unsupported model provider: " \o provider)]

\* main.py:35-50, 306-309
ResumeTailoringSystem(client, config) == [model_client |-> client, settings |-> config]

InitFactory ==
    /\ pc = "ready"
    /\ model_provider \in ModelProviders
    /\ model_id \in ModelIds
    /\ use_mock \in BOOLEAN
    /\ settings \in LoadedSettings
    /\ resume_text = ""
    /\ job_analysis = EmptyJob
    /\ match_score = None
    /\ IdleParser /\ IdleAnalysis /\ IdleAgent /\ IdleOutcome /\ IdleFile /\ IdleThreads /\ IdleSystem

\* main.py:247-313
CreateResumeTailorSystem ==
    /\ pc = "ready"
    /\ settings' = override_settings(settings, model_provider, model_id)
    /\ LET client == create_model_client(settings', model_provider, model_id, use_mock)
       IN IF client.raised # NoError
          THEN /\ pc' = "raised"
               /\ raised' = client.raised
               /\ UNCHANGED result
          ELSE /\ pc' = "returned"
               /\ result' = Returned(ResumeTailoringSystem(client.result.value, settings'))
               /\ UNCHANGED raised
    /\ UNCHANGED <<resume_text, parserVars, job_analysis, match_score, analysisVars,
                   agentVars, fileVars, model_provider, model_id, use_mock, threadVars, systemVars>>

NextFactory == CreateResumeTailorSystem

SpecFactory == InitFactory /\ [][NextFactory]_vars

-----------------------------------------------------------------------------
(* Concurrent calls of parse_resume on one ResumeParserTool and of         *)
(* calculate_match_score and identify_matched_keywords on one JobAnalysis. *)
(* Each call keeps its locals in its own frame, threads[t]; a step is one  *)
(* statement or one iteration of a loop, and the steps of different calls  *)
(* interleave in any order.                                                *)

InitThreads ==
    /\ pc = "ready"
    /\ threads \in [Threads -> {NewThread(op, text) : op \in ThreadOps, text \in ThreadTexts}]
    /\ parser = NewParser
    /\ job_analysis \in ThreadJobs
    /\ resume_text = ""
    /\ match_score = None
    /\ IdleParser /\ IdleAnalysis /\ IdleAgent /\ IdleOutcome /\ IdleFile /\ IdleFactory
    /\ IdleSystem

\* what a step of a thread leaves alone
ThreadFrame ==
    UNCHANGED <<pc, resume_text, parserVars, job_analysis, match_score, analysisVars,
                agentVars, outcomeVars, fileVars, factoryVars, parser,
                systemVars>>

\* parser.py:56
ThreadExtractContact(t) ==
    /\ threads[t].op = "parse_resume"
    /\ threads[t].pc = "start"
    /\ threads' = [threads EXCEPT ![t].contact_info = _extract_contact_info(threads[t].text),
                                  ![t].pc = "split"]
    /\ ThreadFrame

\* parser.py:80-83
ThreadSplitStart(t) ==
    /\ threads[t].pc = "split"
    /\ threads' = [threads EXCEPT ![t].lines = split_lines(threads[t].text),
                                  ![t].idx = 1,
                                  ![t].pc = "loop"]
    /\ ThreadFrame

\* one iteration of parser.py:85-102 that keeps current_content on the parser
\* instance, where the other calls in the loop see it
ThreadSplitLine_on_instance(t) ==
    /\ threads[t].pc = "loop"
    /\ threads[t].idx <= Len(threads[t].lines)
    /\ LET after == SectionStep(threads[t].st, threads[t].lines[threads[t].idx])
       IN threads' = [u \in Threads |->
                        IF u = t
                        THEN [threads[t] EXCEPT !.st = after, !.idx = @ + 1]
                        ELSE IF threads[u].pc = "loop"
                        THEN [threads[u] EXCEPT !.st.current_content = after.current_content]
                        ELSE threads[u]]
    /\ ThreadFrame

\* one iteration of parser.py:85-102
ThreadSplitLine(t) ==
    /\ threads[t].pc = "loop"
    /\ threads[t].idx <= Len(threads[t].lines)
    /\ threads' = [threads EXCEPT
                     ![t].st = SectionStep(@, threads[t].lines[threads[t].idx]),
                     ![t].idx = @ + 1]
    /\ ThreadFrame

\* parser.py:104-118, 61-68
ThreadSplitFinish(t) ==
    /\ threads[t].pc = "loop"
    /\ threads[t].idx > Len(threads[t].lines)
    /\ threads' = [threads EXCEPT
                     ![t].result = Returned(ParsedResume(threads[t].text,
                                                         SectionFinish(threads[t].st,
                                                                       threads[t].text),
                                                         threads[t].contact_info)),
                     ![t].pc = "done"]
    /\ ThreadFrame

\* resume_tailor.py:275-285 and 314-316: the list to scan, read from the
\* shared JobAnalysis
ThreadCollectItems(t) ==
    /\ threads[t].op \in {"calculate_match_score", "identify_matched_keywords"}
    /\ threads[t].pc = "start"
    /\ LET items == IF threads[t].op = "calculate_match_score"
                    THEN job_analysis.hard_skills \o job_analysis.soft_skills
                         \o job_analysis.keywords
                    ELSE get_all_keywords(job_analysis)
       IN IF threads[t].op = "calculate_match_score" /\ items = <<>>
          THEN threads' = [threads EXCEPT ![t].result = Returned(0), ![t].pc = "done"]
          ELSE threads' = [threads EXCEPT ![t].items = items, ![t].idx = 1, ![t].pc = "scan"]
    /\ ThreadFrame

\* one item of resume_tailor.py:287-290 or of 317-320
ThreadScanItem(t) ==
    /\ threads[t].pc = "scan"
    /\ threads[t].idx <= Len(threads[t].items)
    /\ LET item == threads[t].items[threads[t].idx]
       IN threads' = [threads EXCEPT
                        ![t].matched = IF Contains(lower(item), lower(threads[t].text))
                                       THEN Append(@, item) ELSE @,
                        ![t].idx = @ + 1]
    /\ ThreadFrame

\* resume_tailor.py:293-297 or 322
ThreadScanFinish(t) ==
    /\ threads[t].pc = "scan"
    /\ threads[t].idx > Len(threads[t].items)
    /\ threads' = [threads EXCEPT
                     ![t].result =
                        IF threads[t].op = "calculate_match_score"
                        THEN Returned(RoundHalfEven(Len(threads[t].matched) * 100 * 10,
                                                    Len(threads[t].items)))
                        ELSE Returned(threads[t].matched),
                     ![t].pc = "done"]
    /\ ThreadFrame

NextThreads ==
    \E t \in Threads :
        \/ ThreadExtractContact(t)
        \/ ThreadSplitStart(t)
        \/ ThreadSplitLine(t)
        \/ ThreadSplitFinish(t)
        \/ ThreadCollectItems(t)
        \/ ThreadScanItem(t)
        \/ ThreadScanFinish(t)

SpecThreads == InitThreads /\ [][NextThreads]_vars

-----------------------------------------------------------------------------
(* calculate_match_score and identify_matched_keywords called again after  *)
(* the resume grew or the letter case of an input changed.                 *)

InitGrow ==
    /\ pc = "ready"
    /\ resume_text \in GrowingTexts
    /\ job_analysis \in GrowingJobs
    /\ match_score = None
    /\ IdleParser /\ IdleAnalysis /\ IdleAgent /\ IdleOutcome
    /\ IdleFile /\ IdleFactory /\ IdleThreads /\ IdleSystem

\* resume_tailor.py:260-322 on the inputs of the next state
ScoreAgain ==
    /\ match_score' = calculate_match_score(resume_text', job_analysis')
    /\ matched_keywords' = identify_matched_keywords(resume_text', job_analysis')
    /\ UNCHANGED <<parserVars, missing_keywords, agentVars, outcomeVars, fileVars,
                   factoryVars, threadVars, systemVars>>

\* the first call
ScoreResume ==
    /\ pc = "ready"
    /\ pc' = "scored"
    /\ UNCHANGED <<resume_text, job_analysis>>
    /\ ScoreAgain

\* text is added before and after the resume
AddText ==
    /\ pc = "scored"
    /\ \E before \in Additions, after \in Additions :
          /\ before \o after # ""
          /\ Len(before) + Len(resume_text) + Len(after) <= MaxResumeLength
          /\ resume_text' = before \o resume_text \o after
    /\ UNCHANGED <<pc, job_analysis>>
    /\ ScoreAgain

\* the resume is put in upper or in lower case
ChangeResumeCase ==
    /\ pc = "scored"
    /\ resume_text' \in {upper(resume_text), lower(resume_text)}
    /\ resume_text' # resume_text
    /\ UNCHANGED <<pc, job_analysis>>
    /\ ScoreAgain

\* every item of the list put in upper / in lower case
UpperItems(items) == [i \in 1..Len(items) |-> upper(items[i])]
LowerItems(items) == [i \in 1..Len(items) |-> lower(items[i])]

\* the requirement items are put in upper or in lower case
ChangeItemCase ==
    /\ pc = "scored"
    /\ job_analysis' \in
          { [hard_skills |-> UpperItems(job_analysis.hard_skills),
             soft_skills |-> UpperItems(job_analysis.soft_skills),
             keywords |-> UpperItems(job_analysis.keywords)],
            [hard_skills |-> LowerItems(job_analysis.hard_skills),
             soft_skills |-> LowerItems(job_analysis.soft_skills),
             keywords |-> LowerItems(job_analysis.keywords)] }
    /\ job_analysis' # job_analysis
    /\ UNCHANGED <<pc, resume_text>>
    /\ ScoreAgain

NextGrow == ScoreResume \/ AddText \/ ChangeResumeCase \/ ChangeItemCase

SpecGrow == InitGrow /\ [][NextGrow]_vars

-----------------------------------------------------------------------------
(* sanitize_filename (utils/validators.py).                                *)

\* validators.py:152
invalid_chars == {"<", ">", ":", "\"", "/", "\\", "|", "?", "*"}

\* validators.py:153
RECURSIVE ReplaceInvalid(_)
ReplaceInvalid(s) ==
    IF s = "" THEN ""
    ELSE (IF At(s, 1) \in invalid_chars THEN "_" ELSE At(s, 1))
         \o ReplaceInvalid(SubSeq(s, 2, Len(s)))

\* str.strip(". ")
strip_dots_spaces(s) ==
    LET keep == {i \in 1..Len(s) : At(s, i) \notin {".", " "}}
    IN IF keep = {} THEN ""
       ELSE SubSeq(s, CHOOSE i \in keep : \A j \in keep : i <= j,
                      CHOOSE i \in keep : \A j \in keep : i >= j)

\* the slice s[:k], a negative k counting from the end
SliceTo(s, k) ==
    LET stop == IF k >= 0 THEN (IF k < Len(s) THEN k ELSE Len(s))
                ELSE (IF Len(s) + k > 0 THEN Len(s) + k ELSE 0)
    IN SubSeq(s, 1, stop)

\* index of the last "." of s, 0 if there is none
LastDot(s) ==
    LET dots == {i \in 1..Len(s) : At(s, i) = "."}
    IN IF dots = {} THEN 0 ELSE CHOOSE i \in dots : \A j \in dots : i >= j

\* validators.py:140-164
sanitize_filename(name_in, limit) ==
    LET sanitized == strip_dots_spaces(ReplaceInvalid(name_in))
        dot == LastDot(sanitized)
        name == IF dot > 0 THEN SubSeq(sanitized, 1, dot - 1) ELSE sanitized
        ext == IF dot > 0 THEN SubSeq(sanitized, dot + 1, Len(sanitized)) ELSE ""
        max_name_length == limit - Len(ext) - 1
        limited == IF Len(sanitized) > limit
                   THEN IF ext # "" THEN SliceTo(name, max_name_length) \o "." \o ext
                        ELSE SliceTo(name, limit)
                   ELSE sanitized
    IN IF limited # "" THEN limited ELSE "untitled"

\* file names over a letter, the dot, the blank and an invalid character
FilenameChars == {"a", ".", " ", "/"}
RECURSIVE FilenamesOfLength(_)
FilenamesOfLength(n) ==
    IF n = 0 THEN {""}
    ELSE {c \o f : c \in FilenameChars, f \in FilenamesOfLength(n - 1)}
Filenames == UNION {FilenamesOfLength(n) : n \in 0..MaxFilenameLength}

\* the limits: small ones and the default of line 140
MaxLengths == 0..MaxLimit \cup {255}

InitSanitize ==
    /\ pc = "ready"
    /\ filename \in Filenames
    /\ max_length \in MaxLengths
    /\ resume_text = ""
    /\ job_analysis = EmptyJob
    /\ match_score = None
    /\ IdleParser /\ IdleAnalysis /\ IdleAgent /\ IdleOutcome /\ IdleFile /\ IdleFactory
    /\ IdleThreads /\ IdlePipeline /\ IdleSingleton /\ IdleApi

\* validators.py:140-164
SanitizeFilename ==
    /\ pc = "ready"
    /\ result' = Returned(sanitize_filename(filename, max_length))
    /\ pc' = "returned"
    /\ UNCHANGED <<resume_text, parserVars, job_analysis, match_score, analysisVars,
                   agentVars, raised, fileVars, factoryVars, threadVars, systemVars>>

NextSanitize == SanitizeFilename

SpecSanitize == InitSanitize /\ [][NextSanitize]_vars

-----------------------------------------------------------------------------
(* ResumeTailoringSystem.process_resume (main.py), step by step.           *)

\* what request.job_description is: a text of 50 characters or more, a
\* shorter text, the path of a readable file, the short path of a file that
\* read_file refuses, or such a path of 50 characters or more
JobInputs == {"text", "short text", "file", "bad file", "bad file, long path"}

\* the requests: the input kinds, the two flags, and whether the agents have
\* a model client
Requests ==
    [job_description : JobInputs,
     calculate_match_score : BOOLEAN,
     show_comparison : BOOLEAN,
     model_client : {None, "BedrockClient"}]

\* how a call of one of the agents may go: refused by its length check, the
\* generate call raising, the answer not parsing, or a result; without a
\* client the mock text is generated, which neither raises nor fails to parse
AnalysisOutcomes(client) ==
    IF Truthy(client) THEN {"refused", "call raised", "unparsable", "returned"}
    ELSE {"refused", "returned"}
TailoringOutcomes(client) ==
    IF Truthy(client) THEN {"refused", "call raised", "returned"}
    ELSE {"refused", "returned"}

InitProcess ==
    /\ pc = "load_job_description"
    /\ request \in Requests
    /\ steps_started = <<>>
    /\ steps_done = <<>>
    /\ calls = NoCalls
    /\ written = {}
    /\ resume_text = ""
    /\ job_analysis = EmptyJob
    /\ match_score = None
    /\ IdleParser /\ IdleAnalysis /\ IdleAgent /\ IdleOutcome /\ IdleFile /\ IdleFactory
    /\ IdleThreads /\ IdleSanitize /\ IdleSingleton /\ IdleApi

\* what a step of process_resume leaves alone
ProcessFrame ==
    UNCHANGED <<resume_text, parserVars, job_analysis, match_score, analysisVars,
                agentVars, fileVars, factoryVars, threadVars, sanitizeVars, singletonVars,
                apiVars, request>>

\* a step returns and the next one is due
StepReturns(step, next) ==
    /\ steps_started' = Append(steps_started, step)
    /\ steps_done' = Append(steps_done, step)
    /\ pc' = next
    /\ UNCHANGED <<result, raised>>

\* a step raises: the exception leaves process_resume
StepRaises(step, error) ==
    /\ steps_started' = Append(steps_started, step)
    /\ raised' = error
    /\ pc' = "raised"
    /\ UNCHANGED <<result, steps_done>>

\* main.py:74 and 160-181: a readable file or a text that passes
\* validate_job_description is loaded; an exception of read_file is dropped at
\* line 176 and the path itself goes to validate_job_description
ProcessLoad ==
    /\ pc = "load_job_description"
    /\ IF request.job_description \in {"text", "file", "bad file, long path"}
       THEN StepReturns("load_job_description", "analyze_job_description")
       ELSE StepRaises("load_job_description",
                       Error("ValueError", "Job description too short"))
    /\ UNCHANGED <<calls, written>>
    /\ ProcessFrame

\* ProcessAnalyze going on with the mock analysis when the call or the
\* parsing fails
ProcessAnalyze_keep_going ==
    /\ pc = "analyze_job_description"
    /\ \E outcome \in AnalysisOutcomes(request.model_client) :
          /\ calls' = IF outcome = "refused" THEN calls
                      ELSE [calls EXCEPT !.analysis = @ + 1]
          /\ IF outcome = "refused"
             THEN StepRaises("analyze_job_description",
                             Error("ValueError", "Job description is too short to analyze "
                                                 \o "(minimum 50 characters)"))
             ELSE IF outcome = "returned"
             THEN StepReturns("analyze_job_description", "read_file")
             ELSE /\ steps_started' = Append(steps_started, "analyze_job_description")
                  /\ pc' = "read_file"
                  /\ UNCHANGED <<result, raised, steps_done>>
    /\ UNCHANGED written
    /\ ProcessFrame

\* main.py:80 and keyword_extractor.py:87-120
ProcessAnalyze ==
    /\ pc = "analyze_job_description"
    /\ \E outcome \in AnalysisOutcomes(request.model_client) :
          /\ calls' = IF outcome = "refused" THEN calls
                      ELSE [calls EXCEPT !.analysis = @ + 1]
          /\ IF outcome = "refused"
             THEN StepRaises("analyze_job_description",
                             Error("ValueError", "Job description is too short to analyze "
                                                 \o "(minimum 50 characters)"))
             ELSE IF outcome = "call raised"
             THEN StepRaises("analyze_job_description",
                             Error("Exception", "Failed to generate response"))
             ELSE IF outcome = "unparsable"
             THEN StepRaises("analyze_job_description",
                             Error("ValueError", "Invalid JSON response from LLM"))
             ELSE StepReturns("analyze_job_description", "read_file")
    /\ UNCHANGED written
    /\ ProcessFrame

\* main.py:87
ProcessRead ==
    /\ pc = "read_file"
    /\ \/ StepReturns("read_file", "tailor_resume")
       \/ \E e \in {Error("FileNotFoundError", "File not found"),
                     Error("ValueError", "File is empty or contains no readable text")} :
             StepRaises("read_file", e)
    /\ UNCHANGED <<calls, written>>
    /\ ProcessFrame

\* main.py:93-97 and resume_tailor.py:111-138
ProcessTailor ==
    /\ pc = "tailor_resume"
    /\ \E outcome \in TailoringOutcomes(request.model_client) :
          /\ calls' = IF outcome = "refused" THEN calls
                      ELSE [calls EXCEPT !.tailoring = @ + 1]
          /\ IF outcome = "refused"
             THEN StepRaises("tailor_resume",
                             Error("ValueError", "Original resume is too short to process "
                                                 \o "(minimum 100 characters)"))
             ELSE IF outcome = "call raised"
             THEN StepRaises("tailor_resume",
                             Error("Exception", "Failed to generate response"))
             ELSE StepReturns("tailor_resume",
                              IF request.calculate_match_score
                              THEN "calculate_match_score"
                              ELSE "identify_matched_keywords")
    /\ UNCHANGED written
    /\ ProcessFrame

\* main.py:102-109
ProcessScore ==
    /\ pc = "calculate_match_score"
    /\ StepReturns("calculate_match_score", "identify_matched_keywords")
    /\ UNCHANGED <<calls, written>>
    /\ ProcessFrame

\* main.py:112-114
ProcessMatched ==
    /\ pc = "identify_matched_keywords"
    /\ StepReturns("identify_matched_keywords", "generate_suggestions")
    /\ UNCHANGED <<calls, written>>
    /\ ProcessFrame

\* main.py:117-119
ProcessSuggest ==
    /\ pc = "generate_suggestions"
    /\ StepReturns("generate_suggestions", "write_file")
    /\ UNCHANGED <<calls, written>>
    /\ ProcessFrame

\* main.py:123-128 and file_writer.py:35-88
ProcessWrite ==
    /\ pc = "write_file"
    /\ \/ /\ StepReturns("write_file",
                          IF request.show_comparison THEN "write_comparison" ELSE "build")
          /\ written' = written \cup {"output"}
       \/ /\ \E e \in {Error("ValueError", "Unsupported output format"),
                        Error("Exception", "Failed to write file")} :
                StepRaises("write_file", e)
          /\ UNCHANGED written
    /\ UNCHANGED calls
    /\ ProcessFrame

\* main.py:133-141
ProcessCompare ==
    /\ pc = "write_comparison"
    /\ \/ /\ StepReturns("write_comparison", "build")
          /\ written' = written \cup {"comparison"}
       \/ /\ StepRaises("write_comparison", Error("Exception", "Failed to write file"))
          /\ UNCHANGED written
    /\ UNCHANGED calls
    /\ ProcessFrame

\* main.py:144-158: the ResumeTailorResult
ProcessBuild ==
    /\ pc = "build"
    /\ result' = Returned([scored |-> request.calculate_match_score,
                           output_path |-> "output",
                           comparison |-> IF request.show_comparison
                                          THEN "comparison" ELSE None])
    /\ pc' = "returned"
    /\ UNCHANGED <<raised, steps_started, steps_done, calls, written>>
    /\ ProcessFrame

NextProcess ==
    \/ ProcessLoad \/ ProcessAnalyze \/ ProcessRead \/ ProcessTailor \/ ProcessScore
    \/ ProcessMatched \/ ProcessSuggest \/ ProcessWrite \/ ProcessCompare \/ ProcessBuild

SpecProcess == InitProcess /\ [][NextProcess]_vars

-----------------------------------------------------------------------------
(* The settings singleton (config/settings.py) under get_settings,         *)
(* reload_settings and create_resume_tailor_system.                        *)

\* what the environment may hold: OPENAI_API_KEY unset or set
Environments == {[DefaultSettings EXCEPT !.openai_api_key = k] : k \in {None, "sk-test"}}

\* arguments of the factory calls
SingletonProviders == {"bedrock", "openai", ""}
SingletonIds == {None, "gpt-4o"}

NoOverride == [model_id |-> None, model_provider |-> None]

\* get_settings making a new object at every call
get_settings_always_new(current, objects, env) ==
    [instance |-> Len(objects) + 1, heap |-> Append(objects, env), created |-> TRUE]

\* settings.py:97-107: the global after the call, which is the object
\* returned, and the objects that exist then
get_settings(current, objects, env) ==
    IF current = 0
    THEN [instance |-> Len(objects) + 1, heap |-> Append(objects, env), created |-> TRUE]
    ELSE [instance |-> current, heap |-> objects, created |-> FALSE]

\* settings.py:110-119
reload_settings(objects, env) ==
    [instance |-> Len(objects) + 1, heap |-> Append(objects, env), created |-> TRUE]

InitSettings ==
    /\ pc = "ready"
    /\ environment \in Environments
    /\ heap = <<>>
    /\ _settings = 0
    /\ created_by = <<>>
    /\ override_log = <<>>
    /\ last_call = NoCall
    /\ ncalls = 0
    /\ resume_text = ""
    /\ job_analysis = EmptyJob
    /\ match_score = None
    /\ IdleParser /\ IdleAnalysis /\ IdleAgent /\ IdleOutcome /\ IdleFile /\ IdleFactory
    /\ IdleThreads /\ IdleSanitize /\ IdlePipeline /\ IdleApi

SettingsFrame ==
    UNCHANGED <<pc, resume_text, parserVars, job_analysis, match_score, analysisVars,
                agentVars, outcomeVars, fileVars, factoryVars, threadVars, sanitizeVars,
                pipelineVars, apiVars, environment>>

\* a caller calls get_settings and looks at the object it got
GetSettings ==
    /\ ncalls < MaxSettingsCalls
    /\ LET got == get_settings(_settings, heap, environment)
       IN /\ _settings' = got.instance
          /\ heap' = got.heap
          /\ created_by' = IF got.created THEN Append(created_by, "get_settings")
                           ELSE created_by
          /\ override_log' = IF got.created THEN Append(override_log, NoOverride)
                             ELSE override_log
          /\ last_call' = [op |-> "get_settings", instance |-> got.instance,
                           seen |-> got.heap[got.instance], model_id |-> None,
                           outcome |-> [result |-> NoResult, raised |-> NoError]]
    /\ ncalls' = ncalls + 1
    /\ SettingsFrame

\* a caller calls reload_settings
ReloadSettings ==
    /\ ncalls < MaxSettingsCalls
    /\ LET got == reload_settings(heap, environment)
       IN /\ _settings' = got.instance
          /\ heap' = got.heap
          /\ created_by' = Append(created_by, "reload_settings")
          /\ override_log' = Append(override_log, NoOverride)
          /\ last_call' = [op |-> "reload_settings", instance |-> got.instance,
                           seen |-> got.heap[got.instance], model_id |-> None,
                           outcome |-> [result |-> NoResult, raised |-> NoError]]
    /\ ncalls' = ncalls + 1
    /\ SettingsFrame

\* main.py:268-313: create_resume_tailor_system on the singleton
CreateSystem ==
    /\ ncalls < MaxSettingsCalls
    /\ \E provider \in SingletonProviders, id \in SingletonIds, mock \in BOOLEAN :
          LET got == get_settings(_settings, heap, environment)
              overridden == override_settings(got.heap[got.instance], provider, id)
              log == IF got.created THEN Append(override_log, NoOverride) ELSE override_log
          IN /\ _settings' = got.instance
             /\ heap' = [got.heap EXCEPT ![got.instance] = overridden]
             /\ created_by' = IF got.created THEN Append(created_by, "get_settings")
                              ELSE created_by
             /\ override_log' =
                    [log EXCEPT ![got.instance] =
                        [model_id |-> IF Truthy(id) THEN id ELSE @.model_id,
                         model_provider |-> IF Truthy(provider) THEN provider
                                            ELSE @.model_provider]]
             /\ last_call' = [op |-> "create_resume_tailor_system",
                              instance |-> got.instance, seen |-> overridden,
                              model_id |-> id,
                              outcome |-> create_model_client(overridden, provider, id, mock)]
    /\ ncalls' = ncalls + 1
    /\ SettingsFrame

NextSettings == GetSettings \/ ReloadSettings \/ CreateSystem

SpecSettings == InitSettings /\ [][NextSettings]_vars

-----------------------------------------------------------------------------
(* The endpoints of examples/api_example.py that receive an uploaded       *)
(* resume: the life of the temporary file.                                 *)

Endpoints == {"/analyze", "/tailor", "/tailor/download"}

\* names of uploaded files
UploadNames == {"cv.txt", "cv.pdf", "cv.docx", "cv"}

\* what may go wrong while the upload is read and written to the temporary
\* file, and while the request is worked on
SaveErrors == {Error("Exception", "client disconnected"),
              Error("OSError", "No space left on device")}
WorkErrors == {Error("ValueError", "File is empty or contains no readable text"),
              Error("Exception", "Failed to generate response")}

\* the name NamedTemporaryFile gives the file: a fixed stem and the suffix of
\* the uploaded name
TempName(name) == "/tmp/tmpabc" \o suffix(name)

InitUpload ==
    /\ pc = "received"
    /\ endpoint \in Endpoints
    /\ upload \in [filename : UploadNames]
    /\ temp_resume_path = None
    /\ temp_files = {}
    /\ http_status = 0
    /\ resume_text = ""
    /\ job_analysis = EmptyJob
    /\ match_score = None
    /\ IdleParser /\ IdleAnalysis /\ IdleAgent /\ IdleOutcome /\ IdleFile /\ IdleFactory
    /\ IdleThreads /\ IdleSanitize /\ IdlePipeline /\ IdleSingleton

UploadFrame ==
    UNCHANGED <<resume_text, parserVars, job_analysis, match_score, analysisVars,
                agentVars, result, fileVars, factoryVars, threadVars, sanitizeVars,
                pipelineVars, singletonVars, endpoint, upload>>

\* api_example.py:128, 206, 264: NamedTemporaryFile(delete=False) makes the file
CreateTempFile ==
    /\ pc = "received"
    /\ temp_files' = temp_files \cup {TempName(upload.filename)}
    /\ pc' = "saving"
    /\ UNCHANGED <<temp_resume_path, http_status, raised>>
    /\ UploadFrame

\* api_example.py:129-131, 207-209, 265-267: the upload is read and written,
\* then the name is kept; an exception of read or write leaves the with
\* block, which closes the file and does not delete it
SaveUpload ==
    /\ pc = "saving"
    /\ \/ /\ temp_resume_path' = TempName(upload.filename)
          /\ pc' = "working"
          /\ UNCHANGED raised
       \/ \E e \in SaveErrors :
             /\ raised' = e
             /\ pc' = "failed"
             /\ UNCHANGED temp_resume_path
    /\ UNCHANGED <<temp_files, http_status>>
    /\ UploadFrame

\* api_example.py:133-170, 211-231, 269-284: the work on the saved file
\* returns a response or raises; /tailor/download raises HTTPException when
\* there is no output file
WorkOnUpload ==
    /\ pc = "working"
    /\ \/ pc' = "succeeded" /\ UNCHANGED raised
       \/ \E e \in WorkErrors : raised' = e /\ pc' = "failed"
       \/ /\ endpoint = "/tailor/download"
          /\ raised' = Error("HTTPException", "Failed to generate output file")
          /\ pc' = "failed"
    /\ UNCHANGED <<temp_resume_path, temp_files, http_status>>
    /\ UploadFrame

\* api_example.py:172-179, 233-240, 286-292: the except clauses choose the
\* status, the finally clause removes the file whose name is kept
CompleteRequest ==
    /\ pc \in {"succeeded", "failed"}
    /\ http_status' = IF pc = "succeeded" THEN 200
                      ELSE IF raised.type = "ValueError" THEN 400 ELSE 500
    /\ temp_files' = IF Truthy(temp_resume_path) /\ temp_resume_path \in temp_files
                     THEN temp_files \ {temp_resume_path}
                     ELSE temp_files
    /\ pc' = "completed"
    /\ UNCHANGED <<temp_resume_path, raised>>
    /\ UploadFrame

NextUpload == CreateTempFile \/ SaveUpload \/ WorkOnUpload \/ CompleteRequest

SpecUpload == InitUpload /\ [][NextUpload]_vars

-----------------------------------------------------------------------------
(* Properties of calculate_match_score.                                    *)

\* the requirement list of the job in hand and its matched items
RequiredItems ==
    job_analysis.hard_skills \o job_analysis.soft_skills \o job_analysis.keywords

MatchedItems ==
    {i \in 1..Len(RequiredItems) :
        \E k \in 1..Len(resume_text) : \E n \in k..Len(resume_text) :
            lower(SubSeq(resume_text, k, n)) = lower(RequiredItems[i])}

\* C1: with N the length of hard_skills + soft_skills + keywords and M the
\* number of its items (duplicates counted one by one) whose lower-case form
\* is a substring of the lower-cased resume, the score is 100*M/N rounded to
\* one decimal (the nearest tenth, a tie going to the even tenth), which lies
\* in 0..100; for N = 0 the score is 0.0.
C1_ScoreIsRoundedRatio ==
    pc = "scored" =>
        LET N == Len(RequiredItems)
            M == Cardinality(MatchedItems)
            d == match_score * N - 1000 * M
        IN IF N = 0 THEN match_score = 0
           ELSE /\ match_score \in 0..1000
                /\ 2 * d <= N
                /\ -2 * d <= N
                /\ (2 * d = N \/ -2 * d = N) => match_score % 2 = 0

\* two of three requirement items matched, one of them a repeated item: 66.7
C1_Witness ==
    /\ pc = "scored"
    /\ Len(RequiredItems) = 3
    /\ Cardinality(MatchedItems) = 2
    /\ \E i, j \in MatchedItems : i # j /\ RequiredItems[i] = RequiredItems[j]
    /\ match_score = 667

-----------------------------------------------------------------------------
(* Properties of the section segmenter and the contact extractor.          *)

\* the loop of _split_into_sections treats the line as a header
IsHeaderLine(l) ==
    LET h == _is_section_header(strip(l)) IN h.is_header /\ Truthy(h.section_name)

\* the section name the loop gives to a header line
HeaderName(l) == _is_section_header(strip(l)).section_name

IsBlankLine(l) == strip(l) = ""

\* the lines of the input that are neither headers nor blank, in order
ContentLinesOf(text) ==
    SelectSeq(split_lines(text), LAMBDA l : ~IsBlankLine(l) /\ ~IsHeaderLine(l))

\* the contents of the emitted sections, in order
EmittedContents == [i \in 1..Len(sections) |-> sections[i].content]

\* C2: every line of the input that is neither a header nor blank occurs
\* exactly once, in input order, in the contents of the emitted sections
\* joined by newlines: no such line is dropped and none is duplicated.
C2_NoLineDroppedOrDuplicated ==
    pc = "done" =>
        ContentLinesOf(join_lines(EmittedContents)) = ContentLinesOf(resume_text)

\* no line of the text matches a section-title pattern or the header heuristic
NoHeaderShapedLine(text) ==
    \A i \in 1..Len(split_lines(text)) :
        ~_is_section_header(strip(split_lines(text)[i])).is_header

\* C3 as stated: a text without any header-shaped line yields exactly one
\* section, named "Full Resume", whose content is the trimmed input.
C3_FallbackContentIsTrimmedInput ==
    (pc = "done" /\ NoHeaderShapedLine(resume_text)) =>
        /\ Len(sections) = 1
        /\ sections[1].section_name = "Full Resume"
        /\ sections[1].content = strip(resume_text)

\* C3 (amended): a text without any header-shaped line yields exactly one
\* section, named "Full Resume", whose content is the input text unchanged,
\* leading and trailing whitespace included.
C3_FallbackContentIsInput ==
    (pc = "done" /\ NoHeaderShapedLine(resume_text)) =>
        /\ Len(sections) = 1
        /\ sections[1].section_name = "Full Resume"
        /\ sections[1].content = resume_text

\* a headerless text with text in it and whitespace around it was segmented
C3_Witness ==
    /\ pc = "done"
    /\ NoHeaderShapedLine(resume_text)
    /\ strip(resume_text) # ""
    /\ strip(resume_text) # resume_text
    /\ Len(sections) = 1
    /\ sections[1].content = resume_text

\* the digits of s, in order
RECURSIVE DigitsOf(_)
DigitsOf(s) ==
    IF s = "" THEN ""
    ELSE (IF isdigit(At(s, 1)) THEN At(s, 1) ELSE "") \o DigitsOf(SubSeq(s, 2, Len(s)))

\* C4: on the text "Reach me at jane.doe@example.com or 415-555-0100" the
\* contact map holds the first email-shaped match under "email" and the whole
\* first phone-shaped match under "phone": email = "jane.doe@example.com" and
\* a phone value whose digits contain 5550100.
C4_EmailAndWholePhone ==
    (pc # "ready" /\ resume_text = "Reach me at jane.doe@example.com or 415-555-0100") =>
        /\ "email" \in DOMAIN contact_info
        /\ contact_info["email"] = "jane.doe@example.com"
        /\ "phone" \in DOMAIN contact_info
        /\ Contains("5550100", DigitsOf(contact_info["phone"]))

\* the loop has just processed the line LastLine
JustProcessed == idx > 1
LastLine == lines[idx - 1]

\* the line is a recognized header: it matches one of the twelve patterns
IsRecognizedHeader(l) == MatchesKnownPattern(strip(l))

\* the header text contains the word, whatever the letter case
HeaderContains(word, l) == Contains(word, upper(l))

\* C5 as stated: every recognized header that contains EXPERIENCE or
\* EMPLOYMENT is named "Work Experience"; "WORK EXPERIENCE" is named
\* "Work Experience" and "Core Competencies" is named "Skills".
C5_ExperienceAlwaysWorkExperience ==
    JustProcessed =>
        /\ (IsRecognizedHeader(LastLine)
            /\ (HeaderContains("EXPERIENCE", LastLine)
                \/ HeaderContains("EMPLOYMENT", LastLine)))
           => current_section_name = "Work Experience"
        /\ LastLine = "WORK EXPERIENCE" => current_section_name = "Work Experience"
        /\ LastLine = "Core Competencies" => current_section_name = "Skills"

\* C5 (amended): every recognized header that contains EXPERIENCE or
\* EMPLOYMENT and none of SUMMARY, PROFILE, OBJECTIVE is named
\* "Work Experience"; "WORK EXPERIENCE" is named "Work Experience" and
\* "Core Competencies" is named "Skills".
C5_ExperienceUnlessSummary ==
    JustProcessed =>
        /\ (IsRecognizedHeader(LastLine)
            /\ (HeaderContains("EXPERIENCE", LastLine)
                \/ HeaderContains("EMPLOYMENT", LastLine))
            /\ ~HeaderContains("SUMMARY", LastLine)
            /\ ~HeaderContains("PROFILE", LastLine)
            /\ ~HeaderContains("OBJECTIVE", LastLine))
           => current_section_name = "Work Experience"
        /\ LastLine = "WORK EXPERIENCE" => current_section_name = "Work Experience"
        /\ LastLine = "Core Competencies" => current_section_name = "Skills"

\* the header "Core Competencies" was processed after a "WORK EXPERIENCE"
\* section had been closed under its normalized name
C5_Witness ==
    /\ JustProcessed
    /\ LastLine = "Core Competencies"
    /\ current_section_name = "Skills"
    /\ Len(sections) = 1
    /\ sections[1].section_name = "Work Experience"
    /\ lines[1] = "WORK EXPERIENCE"

\* the fixed vocabulary of section names
CanonicalNames ==
    { "Professional Summary", "Work Experience", "Education", "Skills",
      "Certifications", "Projects", "Awards & Achievements", "Publications",
      "Volunteer Experience", "Languages", "Interests", "References" }

\* C6: every line that matches one of the twelve section-title patterns is
\* given a section name of the fixed canonical vocabulary.
C6_RecognizedHeaderIsCanonical ==
    (JustProcessed /\ IsRecognizedHeader(LastLine)) =>
        current_section_name \in CanonicalNames

\* the text of a header line without surrounding whitespace and trailing colons
OwnText(l) == strip(rstrip_colon(strip(l)))

\* C7 as stated: a header recognized only by the fallback heuristic is named
\* by its own text put in title case, so that every header-opened section
\* has a canonical or a title-cased name.
C7_HeuristicHeaderTitleCased ==
    (JustProcessed /\ IsHeaderLine(LastLine)) =>
        /\ ~IsRecognizedHeader(LastLine) => current_section_name = title(OwnText(LastLine))
        /\ current_section_name \in CanonicalNames \/ istitle(current_section_name)

\* C7 (amended): a header recognized only by the fallback heuristic is named
\* by its own text (surrounding whitespace and trailing colons removed) in
\* the letter case it has in the source, so that every header-opened section
\* has a canonical, a title-cased or a fully upper-case name.
C7_HeuristicHeaderKeepsOwnText ==
    (JustProcessed /\ IsHeaderLine(LastLine)) =>
        /\ ~IsRecognizedHeader(LastLine) => current_section_name = OwnText(LastLine)
        /\ \/ current_section_name \in CanonicalNames
           \/ istitle(current_section_name)
           \/ isupper(current_section_name)

\* an upper-case heuristic header was processed and kept its upper-case text
C7_Witness ==
    /\ JustProcessed
    /\ IsHeaderLine(LastLine)
    /\ ~IsRecognizedHeader(LastLine)
    /\ isupper(OwnText(LastLine))
    /\ current_section_name = OwnText(LastLine)
    /\ current_section_name # title(OwnText(LastLine))

\* the indices of the header lines of ls
HeaderIdx(ls) == {i \in 1..Len(ls) : IsHeaderLine(ls[i])}

\* the non-blank lines between the header at index i and the next header or
\* the end of ls, H being the header indices of ls
BodyIn(ls, H, i) ==
    LET later == {j \in H : j > i}
        stop == IF later = {} THEN Len(ls) + 1 ELSE Min(later)
    IN SelectSeq(SubSeq(ls, i + 1, stop - 1), LAMBDA l : ~IsBlankLine(l))

BodyOf(ls, i) == BodyIn(ls, HeaderIdx(ls), i)

\* the content-bearing header occurrences of ls
BearingIdx(ls) ==
    LET H == HeaderIdx(ls) IN {i \in H : BodyIn(ls, H, i) # <<>>}

\* the k-th smallest element of the set S of indices
KthOf(S, k) == CHOOSE i \in S : Cardinality({j \in S : j <= i}) = k

\* the lines the loop has processed so far
Processed == SubSeq(lines, 1, idx - 1)

\* C8: a header yields a section only if a non-blank line was gathered under
\* it before the next header or the end of input.  While the loop runs the
\* emitted sections are one per content-bearing header already followed by
\* another header; at the end, unless no header bears content, they are one
\* per content-bearing header; and no such section has empty content.
C8_SectionOnlyWithContent ==
    /\ pc = "loop" =>
          LET H == HeaderIdx(Processed)
              closed == {i \in H : BodyIn(Processed, H, i) # <<>> /\ \E j \in H : j > i}
          IN /\ Len(sections) = Cardinality(closed)
             /\ \A k \in 1..Len(sections) : strip(sections[k].content) # ""
    /\ pc = "done" =>
          LET B == BearingIdx(lines)
          IN B # {} =>
                /\ Len(sections) = Cardinality(B)
                /\ \A k \in 1..Len(sections) : strip(sections[k].content) # ""

\* a text with a header directly followed by a header, then content, then
\* a header followed by the end of input was segmented into one section
C8_Witness ==
    /\ pc = "done"
    /\ Len(lines) = 4
    /\ IsHeaderLine(lines[1])
    /\ IsHeaderLine(lines[2])
    /\ IsHeaderLine(lines[4])
    /\ BearingIdx(lines) = {2}
    /\ Len(sections) = 1
    /\ sections[1].content = lines[3]

\* the emitted sections are those of the content-bearing headers B of the
\* header lines H, in order
SectionsFollowHeaders(H, B) ==
    /\ Len(sections) = Cardinality(B)
    /\ \A k \in 1..Len(sections) :
          LET h == KthOf(B, k)
          IN /\ sections[k].section_name = HeaderName(lines[h])
             /\ sections[k].content = join_lines(BodyIn(lines, H, h))

\* C9 as stated: the sections are in the order of their headers, one per
\* content-bearing header occurrence, and two sections have the same name
\* only if the source repeats that header.
C9_NameRepeatsOnlyIfHeaderRepeats ==
    pc = "done" =>
        LET H == HeaderIdx(lines)
            B == {i \in H : BodyIn(lines, H, i) # <<>>}
        IN B # {} =>
              /\ SectionsFollowHeaders(H, B)
              /\ \A k1, k2 \in 1..Len(sections) :
                    (k1 < k2 /\ sections[k1].section_name = sections[k2].section_name) =>
                        upper(OwnText(lines[KthOf(B, k1)]))
                            = upper(OwnText(lines[KthOf(B, k2)]))

\* C9 (amended): the sections are in the order of their headers, one per
\* content-bearing header occurrence, each with the normalized name of its
\* header and the lines gathered under it; so two sections have the same
\* name only if two content-bearing headers of the source normalize to it
\* (the header texts may differ).
C9_SectionsInHeaderOrder ==
    pc = "done" =>
        LET H == HeaderIdx(lines)
            B == {i \in H : BodyIn(lines, H, i) # <<>>}
        IN B # {} =>
              /\ SectionsFollowHeaders(H, B)
              /\ \A k1, k2 \in 1..Len(sections) :
                    (k1 < k2 /\ sections[k1].section_name = sections[k2].section_name) =>
                        HeaderName(lines[KthOf(B, k1)]) = HeaderName(lines[KthOf(B, k2)])

\* two sections of one name from different header texts were emitted, unmerged
C9_Witness ==
    /\ pc = "done"
    /\ Len(sections) = 2
    /\ sections[1].section_name = sections[2].section_name
    /\ sections[1].content # sections[2].content
    /\ OwnText(lines[1]) # OwnText(lines[3])

\* the text of a bullet line after its leading marker, stripped: the marker
\* is the run of digits with its dot for a numbered item, else one symbol
StripMarker(line) ==
    LET t == lstrip(line)
        stop == {i \in 1..(Len(t) + 1) : ~isdigit(At(t, i))}
        m == IF isdigit(At(t, 1)) THEN Min(stop) ELSE 1
    IN strip(SubSeq(t, m + 1, Len(t)))

\* the line starts, after optional whitespace, with a list marker followed
\* by whitespace
HasMarker(line) ==
    LET t == lstrip(line)
        stop == {i \in 1..(Len(t) + 1) : ~isdigit(At(t, i))}
        m == IF isdigit(At(t, 1)) THEN Min(stop) ELSE 1
    IN /\ \/ At(t, 1) \in BulletSymbols \cup {"*"}
          \/ (isdigit(At(t, 1)) /\ At(t, m) = ".")
       /\ isspace(At(t, m + 1))

\* C10: in every section the bullets are, in line order, one per contributing
\* line of the content and at most one per line; a line with a marker and
\* text after it contributes, a line without a marker does not, and each
\* bullet is its line without the leading marker and surrounding whitespace
\* ("- Led a team of 5 engineers" gives "Led a team of 5 engineers").
C10_BulletsPerLine ==
    \A k \in 1..Len(sections) :
        LET ls == split_lines(sections[k].content)
            bs == sections[k].bullet_points
            from == {i \in 1..Len(ls) : BulletsOfLine(ls[i]) # <<>>}
        IN /\ Len(bs) = Cardinality(from)
           /\ Len(bs) <= Len(ls)
           /\ \A i \in 1..Len(ls) :
                 /\ (HasMarker(ls[i]) /\ StripMarker(ls[i]) # "") => i \in from
                 /\ ~HasMarker(ls[i]) => i \notin from
           /\ \A n \in 1..Len(bs) : bs[n] = StripMarker(ls[KthOf(from, n)])
           /\ \A i \in 1..Len(ls) :
                 ls[i] = "- Led a team of 5 engineers" =>
                     (i \in from
                      /\ bs[Cardinality({j \in from : j <= i})] = "Led a team of 5 engineers")

\* a section with a plain line between two bullet lines, the bullets in line
\* order with marker and surrounding whitespace removed
C10_Witness ==
    \E k \in 1..Len(sections) :
        /\ split_lines(sections[k].content) = <<" * python ", "  built apis ", " * python ">>
        /\ sections[k].bullet_points = <<"python", "python">>

-----------------------------------------------------------------------------
(* Idempotence of the segmenter.                                           *)

\* the text rebuilt from the sections of the first pass: for each section the
\* header line that opened it, then its content; the fallback section, which
\* no header line opened, gives its content alone
RebuiltText ==
    LET H == HeaderIdx(lines)
        B == {i \in H : BodyIn(lines, H, i) # <<>>}
        piece(k) == IF k <= Cardinality(B)
                    THEN lines[KthOf(B, k)] \o "\n" \o sections[k].content
                    ELSE sections[k].content
    IN join_lines([k \in 1..Len(sections) |-> piece(k)])

\* C11: segmenting the text rebuilt from the sections of the first pass (each
\* section's original header line followed by its content, in order) yields
\* the sections of the first pass again: same names, contents and bullets.
C11_SegmenterIdempotent ==
    pc = "done" => _split_into_sections(RebuiltText) = sections

\* a text with a content line before its first header and a header without
\* content was segmented into one section under its last header; the rebuilt
\* text is shorter than the input and segments to the same section
C11_Witness ==
    /\ pc = "done"
    /\ Len(sections) = 1
    /\ sections[1].section_name # "Full Resume"
    /\ ~IsHeaderLine(lines[1]) /\ ~IsBlankLine(lines[1])
    /\ Cardinality(HeaderIdx(lines)) > Cardinality(BearingIdx(lines))
    /\ RebuiltText # resume_text
    /\ _split_into_sections(RebuiltText) = sections

-----------------------------------------------------------------------------
(* Matched and missing keywords.                                           *)

\* the keyword, letter case set aside, occurs in the resume in hand
OccursInResume(kw) ==
    \E k \in 1..(Len(resume_text) + 1) : \E n \in (k - 1)..Len(resume_text) :
        lower(SubSeq(resume_text, k, n)) = lower(kw)

\* C12: the matched list is the job's full keyword set restricted, in its
\* order, to the keywords whose lower-case form is a substring of the
\* lower-cased resume; the missing list of the /analyze endpoint is the rest
\* of that set in its order; the two lists share no keyword and together hold
\* every keyword of the set; keywords that differ in letter case only are on
\* the same list.
C12_MatchedAndMissingPartition ==
    pc = "analyzed" =>
        LET all == get_all_keywords(job_analysis)
        IN /\ matched_keywords = SelectSeq(all, OccursInResume)
           /\ missing_keywords = SelectSeq(all, LAMBDA kw : ~OccursInResume(kw))
           /\ \A i \in 1..Len(matched_keywords) : ~InList(matched_keywords[i], missing_keywords)
           /\ \A i \in 1..Len(all) :
                 InList(all[i], matched_keywords) \/ InList(all[i], missing_keywords)
           /\ Len(matched_keywords) + Len(missing_keywords) = Len(all)
           /\ \A i, j \in 1..Len(all) :
                 lower(all[i]) = lower(all[j]) =>
                     (InList(all[i], matched_keywords) <=> InList(all[j], matched_keywords))

\* a resume in upper case matched both spellings of one keyword and missed
\* another keyword
C12_Witness ==
    /\ pc = "analyzed"
    /\ resume_text = "PYTHON and SQL"
    /\ InList("python", matched_keywords)
    /\ InList("Python", matched_keywords)
    /\ missing_keywords = <<"AI">>

-----------------------------------------------------------------------------
(* Totality of parse_resume.                                               *)

\* the keys a contact map may have
ContactKeys == {"name", "email", "phone", "linkedin", "website"}

\* C13: parse_resume never raises and never stops short of its return (until
\* it has returned, its next step can be taken): from every input, the empty and the whitespace-only string and texts of header
\* lines only included, it returns a ParsedResume of the input with at least
\* one section and a contact map whose keys are among name, email, phone,
\* linkedin, website, each bound to one string.
C13_ParseResumeTotal ==
    /\ raised = NoError
    /\ pc # "done" =>
          /\ ~result.returned
          /\ \/ pc = "ready"
             \/ (pc = "loop" /\ idx \in 1..(Len(lines) + 1))
    /\ pc = "done" =>
          /\ result.returned
          /\ result.value.raw_text = resume_text
          /\ result.value.sections = sections
          /\ Len(result.value.sections) >= 1
          /\ DOMAIN result.value.contact_info \subseteq ContactKeys
          /\ \A k \in DOMAIN result.value.contact_info :
                result.value.contact_info[k] \in STRING

\* a whitespace-only text was parsed into the fallback section alone and an
\* empty contact map
C13_Witness ==
    /\ pc = "done"
    /\ resume_text # ""
    /\ strip(resume_text) = ""
    /\ result.returned
    /\ Len(result.value.sections) = 1
    /\ result.value.sections[1].section_name = "Full Resume"
    /\ result.value.contact_info = EmptyDict

-----------------------------------------------------------------------------
(* Name extraction.                                                        *)

\* the stripped line passes for a name: not empty, under 50 characters, no
\* digit, title-case or all-caps with at most 4 words, no "@" and no
\* phone-shaped substring
QualifiesAsName(l) ==
    /\ Len(l) \in 1..49
    /\ DigitsOf(l) = ""
    /\ \/ l = title(l) /\ l # lower(l)
       \/ l = upper(l) /\ l # lower(l) /\ WordCount(l) <= 4
    /\ \A i \in 1..Len(l) : At(l, i) # "@"
    /\ ~HasPhoneShape(l)

-----------------------------------------------------------------------------
(* Validation and generation in the agents.                                *)

\* the argument the operation under way validates, and its least length
ValidatedInput == IF operation = "analyze_job_description" THEN job_description ELSE resume_text
LeastLength == IF operation = "analyze_job_description" THEN 50 ELSE 100

\* the number of characters of s between its first and its last character
\* that is not whitespace
StrippedLength(s) ==
    LET solid == {i \in 1..Len(s) : At(s, i) \notin SpaceSet}
    IN IF solid = {} THEN 0 ELSE Max(solid) - Min(solid) + 1

\* C15: once past its validation, an operation whose stripped input is under
\* the least length (50 characters of job description, 100 of resume) has
\* raised ValueError, for a job description with "too short" in its message,
\* has made no generation call, real or mock, and has returned nothing.
C15_ValidationPrecedesGeneration ==
    (pc # "ready" /\ StrippedLength(ValidatedInput) < LeastLength) =>
        /\ pc = "raised"
        /\ raised.type = "ValueError"
        /\ Contains("too short", raised.message)
        /\ generate_calls = 0
        /\ mock_calls = 0
        /\ response = None
        /\ ~result.returned

\* an input of at least the least length as received, but under it once
\* stripped, was refused
C15_Witness ==
    /\ pc = "raised"
    /\ Len(ValidatedInput) >= LeastLength
    /\ StrippedLength(ValidatedInput) = LeastLength - 1
    /\ raised.type = "ValueError"
    /\ generate_calls + mock_calls = 0

\* C18: an operation makes at most one generate call and never both a
\* generate and a mock call; when generate has raised, the operation has
\* ended by raising that very exception, without a mock call, a response or a
\* result.
C18_GenerationSingleShot ==
    /\ generate_calls <= 1
    /\ generate_calls + mock_calls <= 1
    /\ llm_error # NoError =>
          /\ pc = "raised"
          /\ raised = llm_error
          /\ generate_calls = 1
          /\ mock_calls = 0
          /\ response = None
          /\ ~result.returned

\* a generate call failed and the operation raised its exception
C18_Witness ==
    /\ pc = "raised"
    /\ generate_calls = 1
    /\ llm_error \in LLMErrors
    /\ raised = llm_error
    /\ ~result.returned

-----------------------------------------------------------------------------
(* The error contract of FileReaderTool.                                   *)

\* the lower-cased extension of the path in hand is a supported one
ExtensionSupported == lower(suffix(file_path)) \in {".txt", ".pdf", ".docx", ".doc"}

\* the file in hand holds no text but whitespace
FileBlank == \A i \in 1..Len(file_system.parts) : strip(file_system.parts[i]) = ""

C17_ValidateFileNeverRaises ==
    ValidateDone =>
        /\ validate_raised = NoError
        /\ is_valid.returned
        /\ is_valid.value = (file_system.stat = "found" /\ ExtensionSupported)
        /\ ReadDone =>
              (is_valid.value <=>
                  (/\ raised.type \notin {"FileNotFoundError", "OSError"}
                   /\ ~Contains("Unsupported file format", raised.message)))

-----------------------------------------------------------------------------
(* The providers of create_resume_tailor_system.                           *)

\* main.py:257, cli.py:40: the providers the factory documents and the
\* command line offers
DocumentedProviders == {"bedrock", "openai", "anthropic"}

\* C20: create_resume_tailor_system returns a system for bedrock, for openai
\* when an API key is set, and for anthropic; it raises ValueError
\* "Unsupported model provider" only for a provider outside these three.
C20_FactoryServesDocumentedProviders ==
    pc \in {"returned", "raised"} =>
        /\ model_provider \in {"bedrock", "anthropic"} => result.returned
        /\ (model_provider = "openai" /\ Truthy(settings.openai_api_key)) => result.returned
        /\ (raised.type = "ValueError"
            /\ Contains("Unsupported model provider", raised.message)) =>
              model_provider \notin DocumentedProviders

-----------------------------------------------------------------------------
(* Concurrent calls of the core routines.                                  *)

\* what the call of thread t returns when it runs alone
ResultAlone(t) ==
    IF threads[t].op = "parse_resume"
    THEN Returned(ParsedResume(threads[t].text,
                               _split_into_sections(threads[t].text),
                               _extract_contact_info(threads[t].text)))
    ELSE IF threads[t].op = "calculate_match_score"
    THEN Returned(calculate_match_score(threads[t].text, job_analysis))
    ELSE Returned(identify_matched_keywords(threads[t].text, job_analysis))

\* C19: in every interleaving of concurrent calls of parse_resume on a
\* shared parser and of calculate_match_score and identify_matched_keywords
\* on a shared JobAnalysis, each call returns what it returns when run
\* alone, and no step changes the parser, the JobAnalysis or a call's input
\* text.
C19_NoCoordinationNeeded ==
    /\ [](\A t \in Threads : threads[t].pc = "done" => threads[t].result = ResultAlone(t))
    /\ [][/\ parser' = parser
          /\ job_analysis' = job_analysis
          /\ \A t \in Threads : threads'[t].text = threads[t].text]_vars

\* two calls of parse_resume on different texts have ended, and the second
\* one began its loop before the first one ended it
C19_Witness ==
    /\ pc = "ready"
    /\ threads # <<>>
    /\ threads[1].op = "parse_resume" /\ threads[1].pc = "done"
    /\ threads[2].op = "parse_resume" /\ threads[2].pc = "loop"
    /\ threads[2].idx > 1 /\ threads[2].idx <= Len(threads[2].lines)
    /\ threads[1].text # threads[2].text
    /\ Len(threads[1].result.value.sections) = 2

-----------------------------------------------------------------------------
(* The fallback section and the classification of lines.                   *)

\* C29: the fallback section is emitted exactly when no header of the text
\* gathered a content line, texts with headers but no content under any of
\* them included; it is then the only section and its content is the whole
\* input as received; otherwise the sections are those of the
\* content-bearing headers and none is a fallback section.
C29_FallbackExactlyWithoutContent ==
    pc = "done" =>
        LET B == BearingIdx(lines)
        IN IF B = {}
           THEN sections = <<ResumeSection("Full Resume", resume_text,
                                           _extract_bullet_points(resume_text))>>
           ELSE /\ Len(sections) = Cardinality(B)
                /\ \A k \in 1..Len(sections) :
                      /\ sections[k].section_name = HeaderName(lines[KthOf(B, k)])
                      /\ sections[k].content = join_lines(BodyOf(lines, KthOf(B, k)))

\* a text with headers, blank lines and no content was returned whole as the
\* fallback section
C29_Witness ==
    /\ pc = "done"
    /\ HeaderIdx(lines) # {}
    /\ BearingIdx(lines) = {}
    /\ \E i \in 1..Len(lines) : IsBlankLine(lines[i])
    /\ Len(sections) = 1
    /\ sections[1].section_name = "Full Resume"
    /\ sections[1].content = resume_text

\* the line with a and b blanks put before and after it
Padded(l, a, b) == Repeat(" ", a) \o l \o Repeat(" ", b)

\* C30: the loop classifies a line by its stripped form, so that blanks
\* before and after it change neither the verdict nor the section name; a
\* blank line is never a header and changes nothing; a header gets a
\* non-empty name, empties the content, and closes at most the section that
\* was open - none when it is the first line; any other line changes neither
\* the name nor the sections.
C30_HeaderDetectionIgnoresWhitespace ==
    [][(pc = "loop" /\ idx' = idx + 1) =>
          LET l == lines[idx]
              h == _is_section_header(strip(l))
          IN /\ \A a \in 0..(MaxPad + 1), b \in 0..(MaxPad + 1) :
                   _is_section_header(strip(Padded(l, a, b))) = h
             /\ strip(l) = "" =>
                   /\ ~h.is_header
                   /\ UNCHANGED <<sections, current_section_name, current_content>>
             /\ h.is_header =>
                   /\ h.section_name # None /\ h.section_name # ""
                   /\ current_section_name' = h.section_name
                   /\ current_content' = <<>>
                   /\ \/ sections' = sections
                      \/ /\ Len(sections') = Len(sections) + 1
                         /\ current_content # <<>>
                         /\ current_section_name # None
                   /\ idx = 1 => sections' = <<>>
             /\ ~h.is_header =>
                   /\ current_section_name' = current_section_name
                   /\ sections' = sections]_vars

\* a known title with blanks around it has opened the first section under
\* its canonical name, with nothing finalized
C30_Witness ==
    /\ pc = "loop"
    /\ idx = 2
    /\ strip(lines[1]) = "SKILLS"
    /\ Len(lines[1]) = Len("SKILLS") + 2 * MaxPad
    /\ current_section_name = "Skills"
    /\ current_content = <<>>
    /\ sections = <<>>

-----------------------------------------------------------------------------
(* The score when the resume grows or changes its letter case.             *)

\* C28: for a fixed job, a resume that contains the earlier resume scores at
\* least as high and matches every keyword the earlier one matched; and the
\* score is the same after the resume, or the requirement items, were put
\* in another letter case.
C28_ScoreMonotoneAndCaseBlind ==
    [][(pc = "scored" /\ pc' = "scored") =>
          /\ (job_analysis' = job_analysis /\ Contains(resume_text, resume_text')) =>
                /\ match_score' >= match_score
                /\ \A k \in 1..Len(matched_keywords) :
                      InList(matched_keywords[k], matched_keywords')
          /\ (job_analysis' = job_analysis
              /\ resume_text' \in {upper(resume_text), lower(resume_text)}) =>
                match_score' = match_score
          /\ (resume_text' = resume_text /\ job_analysis' # job_analysis) =>
                match_score' = match_score]_vars

\* C21: without a model client, analyze_job_description on a description of
\* at least 50 characters after stripping returns the JobAnalysis of the mock
\* analysis of that description, whatever its words: hard_skills and
\* soft_skills are lists of which at least one is non-empty and
\* experience_required is a string.
C21_MockAnalysisStructure ==
    (/\ operation = "analyze_job_description"
     /\ ~Truthy(model_client)
     /\ Len(strip(job_description)) >= MIN_JOB_DESCRIPTION_LENGTH
     /\ pc \in {"returned", "raised"})
    => /\ pc = "returned"
       /\ raised = NoError
       /\ result.returned
       /\ result.value = JobAnalysis(mock_data(job_description))
       /\ mock_calls = 1
       /\ generate_calls = 0
       /\ result.value.hard_skills \in Seq(STRING)
       /\ result.value.soft_skills \in Seq(STRING)
       /\ Len(result.value.hard_skills) > 0 \/ Len(result.value.soft_skills) > 0
       /\ result.value.experience_required \in STRING
       /\ result.value.experience_required # None

\* a description naming none of the skills _mock_analysis looks for was
\* analysed without a client and came back with both default lists
C21_Witness ==
    /\ operation = "analyze_job_description"
    /\ ~Truthy(model_client)
    /\ job_description \in PlainDescriptions
    /\ pc = "returned"
    /\ result.returned
    /\ result.value.hard_skills = <<"General IT Skills">>
    /\ result.value.soft_skills = <<"Communication", "Problem-solving">>

\* C24: _parse_response either returns the JobAnalysis built from the JSON
\* object in the response, a response with a leading json fence or bare fence
\* and/or a trailing fence giving the same result as the bare JSON, or raises
\* ValueError; no exception of another type escapes.
C24_ParseResponseContract ==
    (/\ operation = "analyze_job_description"
     /\ response # None
     /\ pc \in {"returned", "raised"})
    => /\ \A data \in AnalysisDocs :
            strip(response) \in Fenced(json_dumps(data))
            => /\ pc = "returned"
               /\ result = Returned(JobAnalysis(data))
               /\ raised = NoError
       /\ \/ /\ pc = "returned"
             /\ result.returned
             /\ raised = NoError
             /\ \E data \in AnalysisDocs :
                   /\ result.value = JobAnalysis(data)
                   /\ strip(response) \in Fenced(json_dumps(data))
          \/ /\ pc = "raised"
             /\ ~result.returned
             /\ raised.type = "ValueError"

\* a response in a json fence was parsed to the analysis it holds
C24_Witness ==
    /\ operation = "analyze_job_description"
    /\ response # None
    /\ startswith(strip(response), JsonFence)
    /\ endswith(strip(response), CodeFence)
    /\ pc = "returned"
    /\ result = Returned(JobAnalysis(ClientAnalysis))

\* a response that is JSON but no analysis was refused with ValueError
C24_WitnessRefused ==
    /\ operation = "analyze_job_description"
    /\ response # None
    /\ strip(response) \in Fenced("[]")
    /\ pc = "raised"
    /\ raised = Error("ValueError", "Failed to parse LLM response")

\* C22: MockLLMClient.generate answers by prompt type: the JSON analysis for
\* the prompt of analyze_job_description, and the Markdown mock resume, never
\* the JSON analysis, for every prompt of _build_tailoring_prompt, also one
\* that embeds the full job description.
C22_MockClientAnswersByPromptType ==
    (model_client = "MockLLMClient" /\ response # None)
    => IF operation = "analyze_job_description"
       THEN response = json_dumps(ClientAnalysis)
       ELSE response = MockMarkdown /\ response # json_dumps(ClientAnalysis)

\* C22 for the prompts that embed no job description
C22_MarkdownWithoutDescription ==
    (model_client = "MockLLMClient" /\ response # None)
    => IF operation = "analyze_job_description"
       THEN response = json_dumps(ClientAnalysis)
       ELSE ~Truthy(job_description) => response = MockMarkdown

\* a tailoring prompt that embeds the job description was answered with the
\* JSON analysis, which tailor_resume returned as the tailored resume
C22_JsonForTailoring ==
    /\ model_client = "MockLLMClient"
    /\ operation = "tailor_resume"
    /\ Truthy(job_description)
    /\ pc = "returned"
    /\ result = Returned(json_dumps(ClientAnalysis))

\* the name as it stands after lines 153 and 156
Cleaned(name_in) == strip_dots_spaces(ReplaceInvalid(name_in))

\* the extension of a name: what follows its last dot
ExtensionOf(s) == IF LastDot(s) > 0 THEN SubSeq(s, LastDot(s) + 1, Len(s)) ELSE ""

\* C23: for every filename and every max_length the result of
\* sanitize_filename is non-empty, holds none of the characters
\* < > : " / \ | ? *, is at most max_length long, and keeps the extension
\* when the name is truncated.
C23_SanitizedNameWithinLimits ==
    pc = "returned" =>
        /\ result.value # ""
        /\ \A i \in 1..Len(result.value) : At(result.value, i) \notin invalid_chars
        /\ Len(result.value) <= max_length
        /\ Len(Cleaned(filename)) > max_length
           => ExtensionOf(result.value) = ExtensionOf(Cleaned(filename))

\* C23 where the limit leaves room for the default name and for the
\* extension with its dot and one character of the name
C23_WithinLimitsGivenRoom ==
    (/\ pc = "returned"
     /\ max_length >= Len(ExtensionOf(Cleaned(filename))) + 2
     /\ Cleaned(filename) = "" => max_length >= Len("untitled"))
    => /\ result.value # ""
       /\ \A i \in 1..Len(result.value) : At(result.value, i) \notin invalid_chars
       /\ Len(result.value) <= max_length
       /\ Len(Cleaned(filename)) > max_length
          => ExtensionOf(result.value) = ExtensionOf(Cleaned(filename))

\* a name whose extension alone fills the limit came back longer than the limit
C23_LongerThanLimit ==
    /\ pc = "returned"
    /\ filename = "a.aaa"
    /\ max_length = 3
    /\ result.value = ".aaa"

\* the steps of a run of process_resume that meets no exception
StepOrder(req) ==
    <<"load_job_description", "analyze_job_description", "read_file", "tailor_resume">>
    \o (IF req.calculate_match_score THEN <<"calculate_match_score">> ELSE <<>>)
    \o <<"identify_matched_keywords", "generate_suggestions", "write_file">>
    \o (IF req.show_comparison THEN <<"write_comparison">> ELSE <<>>)

IsPrefix(a, b) == Len(a) <= Len(b) /\ a = SubSeq(b, 1, Len(a))

InSeq(x, seq) == \E i \in 1..Len(seq) : seq[i] = x

\* C25: the steps of process_resume occur in the fixed order, the comparison
\* only if requested; the output file is written only after both generation
\* calls returned; at most one call of each kind is made; after a step
\* raised no later step runs and no result is returned.
C25_StepsInOrder ==
    /\ IsPrefix(steps_started, StepOrder(request))
    /\ IsPrefix(steps_done, steps_started)
    /\ calls.analysis <= 1 /\ calls.tailoring <= 1
    /\ ("output" \in written \/ InSeq("write_file", steps_started))
       => /\ InSeq("analyze_job_description", steps_done)
          /\ InSeq("tailor_resume", steps_done)
          /\ calls = [analysis |-> 1, tailoring |-> 1]
    /\ "comparison" \in written => request.show_comparison /\ "output" \in written
    /\ IF Len(steps_done) < Len(steps_started)
       THEN /\ pc = "raised"
            /\ Len(steps_started) = Len(steps_done) + 1
            /\ raised # NoError
            /\ ~result.returned
       ELSE /\ pc # "raised"
            /\ raised = NoError
            /\ result.returned <=> pc = "returned"
    /\ pc = "returned" => steps_done = StepOrder(request)

\* a run with both flags set wrote output and comparison and returned its
\* result after all nine steps
C25_Witness ==
    /\ pc = "returned"
    /\ request.show_comparison /\ request.calculate_match_score
    /\ Len(steps_done) = 9
    /\ written = {"output", "comparison"}
    /\ result.returned

\* a run stopped at the tailoring call: nothing was written
C25_WitnessRaised ==
    /\ pc = "raised"
    /\ steps_started = <<"load_job_description", "analyze_job_description", "read_file",
                         "tailor_resume">>
    /\ calls = [analysis |-> 1, tailoring |-> 1]
    /\ written = {}
    /\ ~result.returned

\* the Settings object made by the latest reload_settings, or the first
\* object made if there was no reload (0 if no object was made yet)
Reloads == {i \in 1..Len(created_by) : created_by[i] = "reload_settings"}
LatestInstance ==
    IF Reloads # {} THEN CHOOSE i \in Reloads : \A j \in Reloads : i >= j
    ELSE IF Len(created_by) > 0 THEN 1 ELSE 0

\* the singleton part of C26: the global is the object of the latest reload
\* (or the first object), get_settings and the factory hand out that object,
\* and the overrides written into it are in it and are what a caller sees
SingletonHoldsOverrides ==
    /\ _settings = LatestInstance
    /\ last_call.op # "" => last_call.instance = LatestInstance
    /\ _settings # 0 =>
          /\ override_log[_settings].model_id # None
             => heap[_settings].model_id = override_log[_settings].model_id
          /\ override_log[_settings].model_id = None
             => heap[_settings].model_id = environment.model_id
          /\ override_log[_settings].model_provider # None
             => heap[_settings].model_provider = override_log[_settings].model_provider
          /\ last_call.seen = heap[_settings]

\* the latest call was a factory call that passed no model_id, on an object
\* holding an earlier model_id override, and it built a client of this class
LaterCallBuilt(class) ==
    /\ last_call.op = "create_resume_tailor_system"
    /\ ~Truthy(last_call.model_id)
    /\ override_log[_settings].model_id # None
    /\ last_call.outcome.result.returned
    /\ last_call.outcome.result.value.class = class

\* C26 as stated: the singleton holds the overrides, and a later factory call
\* that passes no model_id builds its client with the overridden model_id.
C26_OverridesUsedByLaterCalls ==
    /\ SingletonHoldsOverrides
    /\ \A class \in {"BedrockClient", "OpenAIClient"} :
          LaterCallBuilt(class)
          => last_call.outcome.result.value.model_id = override_log[_settings].model_id

\* C26: get_settings returns the object made by the latest reload_settings,
\* or by the first get_settings; the model_id and model_provider overrides of
\* a factory call stay in that object and are seen by later get_settings
\* callers; a later factory call that passes no model_id uses the overridden
\* model_id when it builds a BedrockClient, and openai_model_id when it builds
\* an OpenAIClient.
C26_OverridesUsedByLaterBedrockCalls ==
    /\ SingletonHoldsOverrides
    /\ LaterCallBuilt("BedrockClient")
       => last_call.outcome.result.value.model_id = override_log[_settings].model_id
    /\ LaterCallBuilt("OpenAIClient")
       => last_call.outcome.result.value.model_id = environment.openai_model_id

\* a bedrock call without model_id built its client with the model_id that an
\* earlier call had written into the singleton
C26_Witness ==
    /\ LaterCallBuilt("BedrockClient")
    /\ last_call.outcome.result.value.model_id = "gpt-4o"
    /\ environment.model_id # "gpt-4o"
    /\ ncalls >= 2

\* C27: on every exit path of /analyze, /tailor and /tailor/download, also
\* when reading the upload or writing it to the temporary file fails, the
\* temporary file made for the upload no longer exists when the request
\* completes.
C27_TempFileGone ==
    pc = "completed" => TempName(upload.filename) \notin temp_files

\* C27 for the requests whose upload was saved
C27_TempFileGoneOnceSaved ==
    (pc = "completed" /\ Truthy(temp_resume_path))
    => /\ temp_files = {}
       /\ http_status \in {200, 400, 500}
       /\ http_status = 400 <=> raised.type = "ValueError"
       /\ http_status = 200 <=> raised = NoError

\* a request whose upload could not be saved completed with status 500 and
\* left its temporary file behind
C27_TempFileLeft ==
    /\ pc = "completed"
    /\ http_status = 500
    /\ temp_resume_path = None
    /\ temp_files = {TempName(upload.filename)}

====
